---- MODULE Spec2Model ----
(***************************************************************************)
(* Model of the silver ledger of src/bot.py: the Database class (accounts, *)
(* treasury and the audit tables), the LootsplitConfirmView and the slash  *)
(* commands that call into the Database.                                   *)
(***************************************************************************)
EXTENDS Integers, Sequences, FiniteSets, TLC

(* ----------------------------------------------------------------------- *)
(* Bounds                                                                  *)
(* ----------------------------------------------------------------------- *)
MaxAmt == 2
MaxBal == 2
MaxCalls == 3
MaxTasks == 3

Guilds == {1, 2}
DbGuilds == {1}
Users == {1, 2, 3}
Amounts == -1..MaxAmt
Balances == -1..MaxBal

VARIABLES
    accounts,               \* table accounts: <<guild_id, user_id>> -> wallet, one entry per row
    treasury,               \* table treasury: guild_id -> balance, one entry per row
    transfer_logs,          \* table transfer_logs, in id order
    treasury_logs,          \* table treasury_logs, in id order
    lootsplit_logs,         \* table lootsplit_logs, in id order
    lootsplit_recipients,   \* table lootsplit_recipients: set of <<lootsplit_id, recipient_id>>
    last,                   \* the last Database call: its name, arguments, result and the tables before it
    conns,                  \* sqlite3 connections of transfer_balance calls in progress, one per call
    dblock,                 \* the connection holding the database write lock, 0 when free
    tasks,                  \* command and button handlers started so far, in start order
    views,                  \* LootsplitConfirmView objects created so far
    args,                   \* arguments of the one lootsplit command of SpecSplit
    page,                   \* the last history call of SpecHist: its arguments and the rows returned
    txn                     \* the Database call of SpecFault in progress, statement by statement

tables == <<accounts, treasury, transfer_logs, treasury_logs, lootsplit_logs, lootsplit_recipients>>
logs == <<transfer_logs, treasury_logs, lootsplit_logs, lootsplit_recipients>>
concOnly == <<conns, dblock>>
botOnly == <<tasks, views>>
restOnly == <<args, page, txn>>
vars == <<accounts, treasury, transfer_logs, treasury_logs, lootsplit_logs, lootsplit_recipients, last,
          conns, dblock, tasks, views, args, page, txn>>

NoRows == [k \in {} |-> 0]

(* ----------------------------------------------------------------------- *)
(* SQL statements of the Database class, as functions of the tables        *)
(* ----------------------------------------------------------------------- *)

\* the same INSERT written with OR REPLACE: an existing row is overwritten with wallet 0
ensure_account_row_replace(acc, g, u) ==
    IF <<g, u>> \in DOMAIN acc THEN [acc EXCEPT ![<<g, u>>] = 0] ELSE acc @@ (<<g, u>> :> 0)

\* INSERT OR IGNORE INTO accounts (guild_id, user_id, wallet) VALUES (?, ?, 0)
ensure_account_row(acc, g, u) ==
    IF <<g, u>> \in DOMAIN acc THEN acc ELSE acc @@ (<<g, u>> :> 0)

\* INSERT OR IGNORE INTO treasury (guild_id, balance) VALUES (?, 0)
ensure_treasury_row(tr, g) ==
    IF g \in DOMAIN tr THEN tr ELSE tr @@ (g :> 0)

\* SELECT wallet FROM accounts WHERE ...; row[0] if row else 0
get_wallet(acc, g, u) ==
    IF <<g, u>> \in DOMAIN acc THEN acc[<<g, u>>] ELSE 0

\* SELECT balance FROM treasury WHERE guild_id = ?; row[0] if row else 0
select_treasury(tr, g) ==
    IF g \in DOMAIN tr THEN tr[g] ELSE 0

\* UPDATE accounts SET wallet = wallet + ? WHERE guild_id = ? AND user_id = ?
update_wallet_add(acc, g, u, delta) ==
    IF <<g, u>> \in DOMAIN acc THEN [acc EXCEPT ![<<g, u>>] = @ + delta] ELSE acc

\* UPDATE accounts SET wallet = ? WHERE guild_id = ? AND user_id = ?
update_wallet_set(acc, g, u, value) ==
    IF <<g, u>> \in DOMAIN acc THEN [acc EXCEPT ![<<g, u>>] = value] ELSE acc

\* UPDATE treasury SET balance = balance - ? WHERE guild_id = ?
update_treasury_sub(tr, g, amount) ==
    IF g \in DOMAIN tr THEN [tr EXCEPT ![g] = @ - amount] ELSE tr

\* INSERT INTO treasury ... ON CONFLICT(guild_id) DO UPDATE SET balance = balance + excluded.balance
upsert_treasury(tr, g, amount) ==
    IF g \in DOMAIN tr THEN [tr EXCEPT ![g] = @ + amount] ELSE tr @@ (g :> amount)

(* ----------------------------------------------------------------------- *)
(* Database methods: the committed tables and the return value of one call *)
(* ----------------------------------------------------------------------- *)

ensure_account(acc, g, u) ==
    [result |-> "None", accounts |-> ensure_account_row(acc, g, u)]

get_balance(acc, g, u) == get_wallet(acc, g, u)

get_treasury(tr, g) == select_treasury(tr, g)

\* get_balance preceded by _ensure_account on the same connection
get_balance_call_ensuring(acc, g, u) ==
    [result |-> get_wallet(ensure_account_row(acc, g, u), g, u),
     accounts |-> ensure_account_row(acc, g, u)]

\* one get_balance call: the value returned and the accounts table it leaves
get_balance_call(acc, g, u) ==
    [result |-> get_wallet(acc, g, u), accounts |-> acc]

\* one get_treasury call: the value returned and the treasury table it leaves
get_treasury_call(tr, g) ==
    [result |-> select_treasury(tr, g), treasury |-> tr]

add_treasury(tr, g, amount) ==
    [result |-> "None", treasury |-> upsert_treasury(tr, g, amount)]

\* deduct_treasury with the funds check written as current <= amount
deduct_treasury_strict(tr, g, amount) ==
    LET t1 == ensure_treasury_row(tr, g)
        current == select_treasury(t1, g)
    IN  IF current <= amount
        THEN [result |-> "False", treasury |-> tr]
        ELSE [result |-> "True", treasury |-> update_treasury_sub(t1, g, amount)]

deduct_treasury(tr, g, amount) ==
    LET t1 == ensure_treasury_row(tr, g)
        current == select_treasury(t1, g)
    IN  IF current < amount
        THEN [result |-> "False", treasury |-> tr]
        ELSE [result |-> "True", treasury |-> update_treasury_sub(t1, g, amount)]

\* transfer_treasury_to_user without the _ensure_account of the receiving user
transfer_treasury_to_user_noensure(acc, tr, g, u, amount) ==
    LET t1 == ensure_treasury_row(tr, g)
        current == select_treasury(t1, g)
    IN  IF current < amount
        THEN [result |-> "False", accounts |-> acc, treasury |-> tr]
        ELSE [result |-> "True",
              accounts |-> update_wallet_add(acc, g, u, amount),
              treasury |-> update_treasury_sub(t1, g, amount)]

transfer_treasury_to_user(acc, tr, g, u, amount) ==
    LET t1 == ensure_treasury_row(tr, g)
        a1 == ensure_account_row(acc, g, u)
        current == select_treasury(t1, g)
    IN  IF current < amount
        THEN [result |-> "False", accounts |-> acc, treasury |-> tr]
        ELSE [result |-> "True",
              accounts |-> update_wallet_add(a1, g, u, amount),
              treasury |-> update_treasury_sub(t1, g, amount)]

add_balance(acc, g, u, amount) ==
    LET current == get_wallet(acc, g, u)
        new_balance == current + amount
    IN  IF new_balance < 0
        THEN [result |-> "False", accounts |-> acc]
        ELSE [result |-> "True", accounts |-> update_wallet_set(acc, g, u, new_balance)]

\* transfer_balance without the UPDATE that credits the receiver
transfer_balance_half(acc, g, sender, receiver, amount) ==
    LET a1 == ensure_account_row(acc, g, sender)
        a2 == ensure_account_row(a1, g, receiver)
        current == get_wallet(a2, g, sender)
    IN  IF current < amount
        THEN [result |-> "False", accounts |-> acc]
        ELSE [result |-> "True", accounts |-> update_wallet_add(a2, g, sender, 0 - amount)]

\* transfer_balance reading the receiver's wallet for the funds check
transfer_balance_wrongrow(acc, g, sender, receiver, amount) ==
    LET a1 == ensure_account_row(acc, g, sender)
        a2 == ensure_account_row(a1, g, receiver)
        current == get_wallet(a2, g, receiver)
    IN  IF current < amount
        THEN [result |-> "False", accounts |-> acc]
        ELSE [result |-> "True",
              accounts |-> update_wallet_add(update_wallet_add(a2, g, sender, 0 - amount),
                                             g, receiver, amount)]

transfer_balance(acc, g, sender, receiver, amount) ==
    LET a1 == ensure_account_row(acc, g, sender)
        a2 == ensure_account_row(a1, g, receiver)
        current == get_wallet(a2, g, sender)
    IN  IF current < amount
        THEN [result |-> "False", accounts |-> acc]
        ELSE [result |-> "True",
              accounts |-> update_wallet_add(update_wallet_add(a2, g, sender, 0 - amount),
                                             g, receiver, amount)]

\* deduct_balance without the funds check
deduct_balance_unchecked(acc, g, u, amount) ==
    LET a1 == ensure_account_row(acc, g, u)
    IN  [result |-> "True", accounts |-> update_wallet_add(a1, g, u, 0 - amount)]

deduct_balance(acc, g, u, amount) ==
    LET a1 == ensure_account_row(acc, g, u)
        current == get_wallet(a1, g, u)
    IN  IF current < amount
        THEN [result |-> "False", accounts |-> acc]
        ELSE [result |-> "True", accounts |-> update_wallet_add(a1, g, u, 0 - amount)]


\* INSERT INTO treasury_logs (guild_id, initiator_id, action, amount, recipient_id); 0 stands for NULL
log_treasury(tl, g, initiator, action, amount, recipient) ==
    Append(tl, [guild_id |-> g, initiator_id |-> initiator, action |-> action,
                amount |-> amount, recipient_id |-> recipient])

\* log_transfer writing its row over the rows already there
log_transfer_replace(tl, g, sender, receiver, amount) ==
    <<[guild_id |-> g, sender_id |-> sender, receiver_id |-> receiver, amount |-> amount]>>

\* INSERT INTO transfer_logs (guild_id, sender_id, receiver_id, amount)
log_transfer(tl, g, sender, receiver, amount) ==
    Append(tl, [guild_id |-> g, sender_id |-> sender, receiver_id |-> receiver, amount |-> amount])

\* log_lootsplit storing the number of distinct ids as recipient_count
log_lootsplit_row_distinct(ll, g, initiator, total, tax, tax_amount, remaining, share, count, recipient_ids) ==
    Append(ll, [guild_id |-> g, initiator_id |-> initiator, total |-> total, tax_percent |-> tax,
                tax_amount |-> tax_amount, remaining |-> remaining, share |-> share,
                recipient_count |-> Cardinality({recipient_ids[i] : i \in DOMAIN recipient_ids}),
                recipient_ids |-> recipient_ids])

\* INSERT INTO lootsplit_logs (...); recipient_ids is the comma-joined text, kept as its list of ids
log_lootsplit_row(ll, g, initiator, total, tax, tax_amount, remaining, share, count, recipient_ids) ==
    Append(ll, [guild_id |-> g, initiator_id |-> initiator, total |-> total, tax_percent |-> tax,
                tax_amount |-> tax_amount, remaining |-> remaining, share |-> share,
                recipient_count |-> count, recipient_ids |-> recipient_ids])

\* INSERT OR IGNORE INTO lootsplit_recipients, one row per id of recipient_ids.split(",")
log_lootsplit_members(lr, lootsplit_id, recipient_ids) ==
    IF recipient_ids # <<>>
    THEN lr \cup {<<lootsplit_id, recipient_ids[i]>> : i \in DOMAIN recipient_ids}
    ELSE lr

(* ----------------------------------------------------------------------- *)
(* Specification SpecDb: any sequence of Database calls, any integer       *)
(* amount, starting from the empty schema of init_schema                   *)
(* ----------------------------------------------------------------------- *)

InRange(f) == \A k \in DOMAIN f : f[k] \in Balances

Call(op, g, u, v, amount, result) ==
    [op |-> op, g |-> g, u |-> u, v |-> v, amount |-> amount, result |-> result, value |-> 0,
     accounts |-> accounts, treasury |-> treasury]

\* a call that returns a balance
ReadCall(op, g, u, value) ==
    [op |-> op, g |-> g, u |-> u, v |-> 0, amount |-> 0, result |-> "int", value |-> value,
     accounts |-> accounts, treasury |-> treasury]

init_schema ==
    /\ accounts = NoRows
    /\ treasury = NoRows
    /\ transfer_logs = <<>>
    /\ treasury_logs = <<>>
    /\ lootsplit_logs = <<>>
    /\ lootsplit_recipients = {}

NoCall ==
    [op |-> "init_schema", g |-> 0, u |-> 0, v |-> 0, amount |-> 0,
     result |-> "None", value |-> 0, accounts |-> NoRows, treasury |-> NoRows]

NoArgs == [total |-> 0, repair |-> 0, tax |-> 0, n |-> 0]
NoPage == [op |-> "none", g |-> 0, limit |-> 0, offset |-> 0, rows |-> <<>>]
NoTxn == [op |-> "none", pc |-> "none", g |-> 0, u |-> 0, v |-> 0, amount |-> 0, result |-> "None",
          faulted |-> FALSE, acc |-> NoRows, tr |-> NoRows, accounts |-> NoRows, treasury |-> NoRows]
RestIdle ==
    /\ args = NoArgs
    /\ page = NoPage
    /\ txn = NoTxn

InitDb ==
    /\ init_schema
    /\ last = NoCall
    /\ conns = <<>>
    /\ dblock = 0
    /\ tasks = <<>>
    /\ views = <<>>
    /\ RestIdle

DbEnsureAccount(g, u) ==
    LET r == ensure_account(accounts, g, u)
    IN  /\ accounts' = r.accounts
        /\ last' = Call("ensure_account", g, u, 0, 0, r.result)
        /\ UNCHANGED <<treasury, logs, concOnly, botOnly, restOnly>>

DbAddBalance(g, u, amount) ==
    LET r == add_balance(accounts, g, u, amount)
    IN  /\ InRange(r.accounts)
        /\ accounts' = r.accounts
        /\ last' = Call("add_balance", g, u, 0, amount, r.result)
        /\ UNCHANGED <<treasury, logs, concOnly, botOnly, restOnly>>

DbDeductBalance(g, u, amount) ==
    LET r == deduct_balance(accounts, g, u, amount)
    IN  /\ InRange(r.accounts)
        /\ accounts' = r.accounts
        /\ last' = Call("deduct_balance", g, u, 0, amount, r.result)
        /\ UNCHANGED <<treasury, logs, concOnly, botOnly, restOnly>>

DbTransferBalance(g, s, r, amount) ==
    LET res == transfer_balance(accounts, g, s, r, amount)
    IN  /\ InRange(res.accounts)
        /\ accounts' = res.accounts
        /\ last' = Call("transfer_balance", g, s, r, amount, res.result)
        /\ UNCHANGED <<treasury, logs, concOnly, botOnly, restOnly>>

DbAddTreasury(g, amount) ==
    LET r == add_treasury(treasury, g, amount)
    IN  /\ InRange(r.treasury)
        /\ treasury' = r.treasury
        /\ last' = Call("add_treasury", g, 0, 0, amount, r.result)
        /\ UNCHANGED <<accounts, logs, concOnly, botOnly, restOnly>>

DbDeductTreasury(g, amount) ==
    LET r == deduct_treasury(treasury, g, amount)
    IN  /\ InRange(r.treasury)
        /\ treasury' = r.treasury
        /\ last' = Call("deduct_treasury", g, 0, 0, amount, r.result)
        /\ UNCHANGED <<accounts, logs, concOnly, botOnly, restOnly>>

DbTransferTreasuryToUser(g, u, amount) ==
    LET r == transfer_treasury_to_user(accounts, treasury, g, u, amount)
    IN  /\ InRange(r.accounts)
        /\ InRange(r.treasury)
        /\ accounts' = r.accounts
        /\ treasury' = r.treasury
        /\ last' = Call("transfer_treasury_to_user", g, u, 0, amount, r.result)
        /\ UNCHANGED <<logs, concOnly, botOnly, restOnly>>

DbGetBalance(g, u) ==
    LET r == get_balance_call(accounts, g, u)
    IN  /\ accounts' = r.accounts
        /\ last' = ReadCall("get_balance", g, u, r.result)
        /\ UNCHANGED <<treasury, logs, concOnly, botOnly, restOnly>>

DbGetTreasury(g) ==
    LET r == get_treasury_call(treasury, g)
    IN  /\ treasury' = r.treasury
        /\ last' = ReadCall("get_treasury", g, 0, r.result)
        /\ UNCHANGED <<accounts, logs, concOnly, botOnly, restOnly>>

NextDb ==
    \/ \E g \in DbGuilds, u \in Users : DbGetBalance(g, u)
    \/ \E g \in DbGuilds : DbGetTreasury(g)
    \/ \E g \in DbGuilds, u \in Users : DbEnsureAccount(g, u)
    \/ \E g \in DbGuilds, u \in Users, amount \in Amounts : DbAddBalance(g, u, amount)
    \/ \E g \in DbGuilds, u \in Users, amount \in Amounts : DbDeductBalance(g, u, amount)
    \/ \E g \in DbGuilds, s \in Users, r \in Users, amount \in Amounts :
            DbTransferBalance(g, s, r, amount)
    \/ \E g \in DbGuilds, amount \in Amounts : DbAddTreasury(g, amount)
    \/ \E g \in DbGuilds, amount \in Amounts : DbDeductTreasury(g, amount)
    \/ \E g \in DbGuilds, u \in Users, amount \in Amounts : DbTransferTreasuryToUser(g, u, amount)

SpecDb == InitDb /\ [][NextDb]_vars


(* ----------------------------------------------------------------------- *)
(* Specification SpecConc: N transfer_balance calls out of one sender      *)
(* account, each on its own connection, interleaved statement by statement.*)
(* A connection's first write statement (the INSERT OR IGNORE of           *)
(* _ensure_account) takes the database write lock and waits while another  *)
(* connection holds it; COMMIT and ROLLBACK release it.  The statements of *)
(* the transaction work on conns[c].work, which COMMIT makes the committed *)
(* accounts table.                                                         *)
(* ----------------------------------------------------------------------- *)

ConcGuild == 1
ConcSender == 1

NewConn(receiver, amount) ==
    [pc |-> "BEGIN", sender |-> ConcSender, receiver |-> receiver, amount |-> amount,
     work |-> NoRows, result |-> "None"]

InitConc ==
    /\ \E n \in 1..MaxCalls, a \in 1..MaxAmt :
        /\ accounts = (<<ConcGuild, ConcSender>> :> (n * a - 1))
        /\ \E receivers \in [1..n -> Users \ {ConcSender}] :
               conns = [c \in 1..n |-> NewConn(receivers[c], a)]
    /\ dblock = 0
    /\ treasury = NoRows
    /\ transfer_logs = <<>>
    /\ treasury_logs = <<>>
    /\ lootsplit_logs = <<>>
    /\ lootsplit_recipients = {}
    /\ last = NoCall
    /\ tasks = <<>>
    /\ views = <<>>
    /\ RestIdle

ConcFrame == UNCHANGED <<treasury, logs, last, botOnly, restOnly>>

\* conn.execute("BEGIN")
ConnBegin(c) ==
    /\ conns[c].pc = "BEGIN"
    /\ conns' = [conns EXCEPT ![c].pc = "ensure_sender"]
    /\ UNCHANGED <<accounts, dblock>>
    /\ ConcFrame

\* self._ensure_account(conn, guild_id, sender_id), without waiting for the write lock
ConnEnsureSender_nolock(c) ==
    /\ conns[c].pc = "ensure_sender"
    /\ dblock' = c
    /\ conns' = [conns EXCEPT ![c].pc = "ensure_receiver",
                              ![c].work = ensure_account_row(accounts, ConcGuild, conns[c].sender)]
    /\ UNCHANGED accounts
    /\ ConcFrame

\* self._ensure_account(conn, guild_id, sender_id): the transaction's first write
ConnEnsureSender(c) ==
    /\ conns[c].pc = "ensure_sender"
    /\ dblock = 0
    /\ dblock' = c
    /\ conns' = [conns EXCEPT ![c].pc = "ensure_receiver",
                              ![c].work = ensure_account_row(accounts, ConcGuild, conns[c].sender)]
    /\ UNCHANGED accounts
    /\ ConcFrame

\* self._ensure_account(conn, guild_id, receiver_id)
ConnEnsureReceiver(c) ==
    /\ conns[c].pc = "ensure_receiver"
    /\ conns' = [conns EXCEPT ![c].pc = "check",
                              ![c].work = ensure_account_row(conns[c].work, ConcGuild, conns[c].receiver)]
    /\ UNCHANGED <<accounts, dblock>>
    /\ ConcFrame

\* current = self._get_wallet(...); if current < amount: ROLLBACK; return False
ConnCheck(c) ==
    /\ conns[c].pc = "check"
    /\ LET current == get_wallet(conns[c].work, ConcGuild, conns[c].sender)
       IN  IF current < conns[c].amount
           THEN /\ conns' = [conns EXCEPT ![c].pc = "done", ![c].work = NoRows,
                                          ![c].result = "False"]
                /\ dblock' = IF dblock = c THEN 0 ELSE dblock
           ELSE /\ conns' = [conns EXCEPT ![c].pc = "debit"]
                /\ UNCHANGED dblock
    /\ UNCHANGED accounts
    /\ ConcFrame

\* UPDATE accounts SET wallet = wallet - ? ... sender_id
ConnDebit(c) ==
    /\ conns[c].pc = "debit"
    /\ conns' = [conns EXCEPT ![c].pc = "credit",
                              ![c].work = update_wallet_add(conns[c].work, ConcGuild,
                                                            conns[c].sender, 0 - conns[c].amount)]
    /\ UNCHANGED <<accounts, dblock>>
    /\ ConcFrame

\* UPDATE accounts SET wallet = wallet + ? ... receiver_id
ConnCredit(c) ==
    /\ conns[c].pc = "credit"
    /\ conns' = [conns EXCEPT ![c].pc = "COMMIT",
                              ![c].work = update_wallet_add(conns[c].work, ConcGuild,
                                                            conns[c].receiver, conns[c].amount)]
    /\ UNCHANGED <<accounts, dblock>>
    /\ ConcFrame

\* conn.execute("COMMIT"); return True
ConnCommit(c) ==
    /\ conns[c].pc = "COMMIT"
    /\ accounts' = conns[c].work
    /\ conns' = [conns EXCEPT ![c].pc = "done", ![c].work = NoRows, ![c].result = "True"]
    /\ dblock' = IF dblock = c THEN 0 ELSE dblock
    /\ ConcFrame

NextConc ==
    \/ \E c \in DOMAIN conns : ConnBegin(c)
    \/ \E c \in DOMAIN conns : ConnEnsureSender(c)
    \/ \E c \in DOMAIN conns : ConnEnsureReceiver(c)
    \/ \E c \in DOMAIN conns : ConnCheck(c)
    \/ \E c \in DOMAIN conns : ConnDebit(c)
    \/ \E c \in DOMAIN conns : ConnCredit(c)
    \/ \E c \in DOMAIN conns : ConnCommit(c)

SpecConc == InitConc /\ [][NextConc]_vars


(* ----------------------------------------------------------------------- *)
(* Specification SpecBot: the slash commands and the buttons of the        *)
(* LootsplitConfirmView.  Handlers are coroutines on one event loop: an    *)
(* action runs a handler from its start (or from the await it was          *)
(* suspended at) up to its next await of run_excel_backup, or to its end.  *)
(* Database calls are synchronous and so never interleave.                 *)
(* ----------------------------------------------------------------------- *)

BotGuild == 1
BotUsers == {1, 2}
Admins == {1}
BotAmounts == 0..MaxAmt
LootTotals == {1, 5}
LootRepairs == {0, 1}
LootTaxes == {50}

RECURSIVE SortedIds(_)
\* sorted(user_ids)
SortedIds(S) ==
    IF S = {} THEN <<>>
    ELSE LET m == CHOOSE x \in S : \A y \in S : x <= y
         IN  <<m>> \o SortedIds(S \ {m})

RECURSIVE credit_recipients_noensure(_, _, _, _)
RECURSIVE credit_recipients(_, _, _, _)
\* the crediting loop without db.ensure_account: add_balance alone inserts no row
credit_recipients_noensure(acc, g, recipients, share) ==
    IF recipients = <<>> THEN acc
    ELSE LET a2 == add_balance(acc, g, Head(recipients), share).accounts
         IN  credit_recipients_noensure(a2, g, Tail(recipients), share)

\* for member in self.recipients: db.ensure_account(...); db.add_balance(..., self.share)
credit_recipients(acc, g, recipients, share) ==
    IF recipients = <<>> THEN acc
    ELSE LET a1 == ensure_account(acc, g, Head(recipients)).accounts
             a2 == add_balance(a1, g, Head(recipients), share).accounts
         IN  credit_recipients(a2, g, Tail(recipients), share)

NoSplit(status) == [status |-> status, tax_amount |-> 0, remaining |-> 0, share |-> 0]

\* the split arithmetic of lootsplit with the tax taken on total instead of after_repair
compute_split_taxtotal(total, repair, tax, count) ==
    LET after_repair == total - repair
        tax_amount == (total * tax) \div 100
        remaining == after_repair - tax_amount
        share == remaining \div count
    IN  IF after_repair <= 0 THEN NoSplit("FeeExceedsTotal")
        ELSE IF share <= 0 THEN NoSplit("SplitTooSmall")
        ELSE [status |-> "ok", tax_amount |-> tax_amount, remaining |-> remaining, share |-> share]

\* the split arithmetic of lootsplit with the repair check written as after_repair < 0
compute_split_feezero(total, repair, tax, count) ==
    LET after_repair == total - repair
        tax_amount == (after_repair * tax) \div 100
        remaining == after_repair - tax_amount
        share == remaining \div count
    IN  IF after_repair < 0 THEN NoSplit("FeeExceedsTotal")
        ELSE IF share <= 0 THEN NoSplit("SplitTooSmall")
        ELSE [status |-> "ok", tax_amount |-> tax_amount, remaining |-> remaining, share |-> share]

\* the split arithmetic of the lootsplit command (count = len(recipients) >= 1):
\*   after_repair = total - repair;  tax_amount = (after_repair * tax) // 100
\*   remaining = after_repair - tax_amount;  share = remaining // len(recipients)
\* Python's // and TLA+'s \div both round towards minus infinity.
compute_split(total, repair, tax, count) ==
    LET after_repair == total - repair
        tax_amount == (after_repair * tax) \div 100
        remaining == after_repair - tax_amount
        share == remaining \div count
    IN  IF after_repair <= 0 THEN NoSplit("FeeExceedsTotal")
        ELSE IF share <= 0 THEN NoSplit("SplitTooSmall")
        ELSE [status |-> "ok", tax_amount |-> tax_amount, remaining |-> remaining, share |-> share]

NewTask(cmd, pc, outcome, view, logged, mutated) ==
    [cmd |-> cmd, pc |-> pc, outcome |-> outcome, view |-> view,
     logged |-> logged, mutated |-> mutated]

\* a handler that replies with send_error / an ephemeral message and returns
Rejected(cmd, view) ==
    /\ tasks' = Append(tasks, NewTask(cmd, "done", "rejected", view, 0, FALSE))
    /\ UNCHANGED <<tables, views>>

\* a handler replying with an error that is told apart from the others: lootsplit with
\* "Repair fee is too high for this total." (FeeExceedsTotal) or "Not enough silver to
\* split." (SplitTooSmall), transfer with "You can't pay yourself." (self_transfer)
RejectedAs(cmd, outcome) ==
    /\ tasks' = Append(tasks, NewTask(cmd, "done", outcome, 0, 0, FALSE))
    /\ UNCHANGED <<tables, views>>

\* a handler whose Database call returned False
Failed(cmd) ==
    /\ tasks' = Append(tasks, NewTask(cmd, "done", "failed", 0, 0, FALSE))
    /\ UNCHANGED <<tables, views>>

CanStart == Len(tasks) < MaxTasks

BotFrame == UNCHANGED <<last, concOnly, restOnly>>

InitBot ==
    /\ init_schema
    /\ last = NoCall
    /\ conns = <<>>
    /\ dblock = 0
    /\ tasks = <<>>
    /\ views = <<>>
    /\ RestIdle

\* the users argument as the command reads it: ids is the set of ids that its mention
\* pattern, or failing that its raw id pattern, finds; names lists the members that its
\* @name tokens resolve to, in the order of the tokens
Mentions(ids) == [ids |-> ids, names |-> <<>>]
Named(names) == [ids |-> {}, names |-> names]

\* recipients = []; the @name tokens are resolved only when no id was found; then
\* every member of sorted(user_ids) is appended (all ids here are guild members)
resolve_users(users) == (IF users.ids = {} THEN users.names ELSE <<>>) \o SortedIds(users.ids)

lootsplit(user, total, repair, tax, users) ==
    /\ CanStart
    /\ BotFrame
    /\ LET recipients == resolve_users(users)
           split == compute_split(total, repair, tax, Len(recipients))
       IN  IF \/ total <= 0
              \/ repair < 0
              \/ ~(0 <= tax /\ tax <= 100)
              \/ recipients = <<>>
           THEN Rejected("lootsplit", 0)
           ELSE IF split.status # "ok"
           THEN RejectedAs("lootsplit", split.status)
           ELSE /\ views' = Append(views,
                        [guild_id |-> BotGuild, initiator_id |-> user, total |-> total,
                         repair |-> repair, tax |-> tax, tax_amount |-> split.tax_amount,
                         remaining |-> split.remaining, share |-> split.share,
                         recipients |-> recipients, applied |-> FALSE, disabled |-> FALSE])
                /\ tasks' = Append(tasks, NewTask("lootsplit", "done", "ok", Len(views) + 1, 0, FALSE))
                /\ UNCHANGED tables

\* LootsplitConfirmView.confirm up to "await run_excel_backup(self.guild)"
confirm(v, user) ==
    /\ CanStart
    /\ BotFrame
    /\ IF user # views[v].initiator_id \/ views[v].applied
       THEN Rejected("confirm", v)
       ELSE LET view == views[v]
                acc2 == credit_recipients(accounts, view.guild_id, view.recipients, view.share)
                tr2 == IF view.tax_amount > 0
                       THEN add_treasury(treasury, view.guild_id, view.tax_amount).treasury
                       ELSE treasury
                ll2 == log_lootsplit_row(lootsplit_logs, view.guild_id, view.initiator_id, view.total,
                                         view.tax, view.tax_amount, view.remaining, view.share,
                                         Len(view.recipients), view.recipients)
                lr2 == log_lootsplit_members(lootsplit_recipients, Len(ll2), view.recipients)
            IN  /\ accounts' = acc2
                /\ treasury' = tr2
                /\ lootsplit_logs' = ll2
                /\ lootsplit_recipients' = lr2
                /\ tasks' = Append(tasks, NewTask("confirm", "backup", "ok", v,
                                                  Len(ll2) - Len(lootsplit_logs),
                                                  acc2 # accounts \/ tr2 # treasury))
                /\ UNCHANGED <<transfer_logs, treasury_logs, views>>

\* LootsplitConfirmView.confirm after the backup: self.applied = True; disable; edit_message
confirm_resume(t) ==
    /\ tasks[t].cmd = "confirm"
    /\ tasks[t].pc = "backup"
    /\ views' = [views EXCEPT ![tasks[t].view].applied = TRUE,
                              ![tasks[t].view].disabled = TRUE]
    /\ tasks' = [tasks EXCEPT ![t].pc = "done"]
    /\ UNCHANGED tables
    /\ BotFrame

\* LootsplitConfirmView.cancel
cancel(v, user) ==
    /\ CanStart
    /\ BotFrame
    /\ IF user # views[v].initiator_id \/ views[v].applied
       THEN Rejected("cancel", v)
       ELSE /\ views' = [views EXCEPT ![v].disabled = TRUE]
            /\ tasks' = Append(tasks, NewTask("cancel", "done", "canceled", v, 0, FALSE))
            /\ UNCHANGED tables

\* /balance [member]; member = 0 stands for member=None.  The handler makes its two
\* Database calls and replies with the wallet: it has no await to resume from and
\* nothing to refuse, so it leaves no entry in tasks
balance(user, member) ==
    /\ BotFrame
    /\ LET target == IF member = 0 THEN user ELSE member
           a1 == ensure_account(accounts, BotGuild, target).accounts
       IN  /\ accounts' = a1      \* the reply shows get_balance(a1, BotGuild, target)
           /\ UNCHANGED <<treasury, logs, tasks, views>>

give_silver(member, amount) ==
    /\ CanStart
    /\ BotFrame
    /\ IF amount <= 0
       THEN Rejected("give_silver", 0)
       ELSE LET a1 == ensure_account(accounts, BotGuild, member).accounts
                a2 == add_balance(a1, BotGuild, member, amount).accounts
            IN  /\ accounts' = a2
                /\ tasks' = Append(tasks, NewTask("give_silver", "backup", "ok", 0, 0, a2 # accounts))
                /\ UNCHANGED <<treasury, logs, views>>

\* treasury_add without its "Amount must be positive." check
treasury_add_unvalidated(user, amount) ==
    /\ CanStart
    /\ BotFrame
    /\ LET tr2 == add_treasury(treasury, BotGuild, amount).treasury
           tl2 == log_treasury(treasury_logs, BotGuild, user, "add", amount, 0)
       IN  /\ treasury' = tr2
           /\ treasury_logs' = tl2
           /\ tasks' = Append(tasks, NewTask("treasury_add", "backup", "ok", 0,
                                             Len(tl2) - Len(treasury_logs), tr2 # treasury))
           /\ UNCHANGED <<accounts, transfer_logs, lootsplit_logs, lootsplit_recipients, views>>

treasury_add(user, amount) ==
    /\ CanStart
    /\ BotFrame
    /\ IF amount <= 0
       THEN Rejected("treasury_add", 0)
       ELSE LET tr2 == add_treasury(treasury, BotGuild, amount).treasury
                tl2 == log_treasury(treasury_logs, BotGuild, user, "add", amount, 0)
            IN  /\ treasury' = tr2
                /\ treasury_logs' = tl2
                /\ tasks' = Append(tasks, NewTask("treasury_add", "backup", "ok", 0,
                                                  Len(tl2) - Len(treasury_logs), tr2 # treasury))
                /\ UNCHANGED <<accounts, transfer_logs, lootsplit_logs, lootsplit_recipients, views>>

take_silver(member, amount) ==
    /\ CanStart
    /\ BotFrame
    /\ IF amount <= 0
       THEN Rejected("take_silver", 0)
       ELSE LET r == deduct_balance(accounts, BotGuild, member, amount)
            IN  IF r.result # "True"
                THEN Failed("take_silver")
                ELSE /\ accounts' = r.accounts
                     /\ tasks' = Append(tasks, NewTask("take_silver", "backup", "ok", 0, 0,
                                                       r.accounts # accounts))
                     /\ UNCHANGED <<treasury, logs, views>>

\* member = 0 stands for member=None
treasury_take(user, amount, member) ==
    /\ CanStart
    /\ BotFrame
    /\ IF amount <= 0
       THEN Rejected("treasury_take", 0)
       ELSE IF member # 0
       THEN LET r == transfer_treasury_to_user(accounts, treasury, BotGuild, member, amount)
                tl2 == log_treasury(treasury_logs, BotGuild, user, "transfer", amount, member)
            IN  IF r.result # "True"
                THEN Failed("treasury_take")
                ELSE /\ accounts' = r.accounts
                     /\ treasury' = r.treasury
                     /\ treasury_logs' = tl2
                     /\ tasks' = Append(tasks, NewTask("treasury_take", "backup", "ok", 0,
                                                       Len(tl2) - Len(treasury_logs),
                                                       r.accounts # accounts \/ r.treasury # treasury))
                     /\ UNCHANGED <<transfer_logs, lootsplit_logs, lootsplit_recipients, views>>
       ELSE LET r == deduct_treasury(treasury, BotGuild, amount)
                tl2 == log_treasury(treasury_logs, BotGuild, user, "take", amount, 0)
            IN  IF r.result # "True"
                THEN Failed("treasury_take")
                ELSE /\ treasury' = r.treasury
                     /\ treasury_logs' = tl2
                     /\ tasks' = Append(tasks, NewTask("treasury_take", "backup", "ok", 0,
                                                       Len(tl2) - Len(treasury_logs),
                                                       r.treasury # treasury))
                     /\ UNCHANGED <<accounts, transfer_logs, lootsplit_logs, lootsplit_recipients, views>>

\* transfer without its "You can't pay yourself." check
transfer_noselfcheck(user, member, amount) ==
    /\ CanStart
    /\ BotFrame
    /\ IF amount <= 0
       THEN Rejected("transfer", 0)
       ELSE LET r == transfer_balance(accounts, BotGuild, user, member, amount)
                tl2 == log_transfer(transfer_logs, BotGuild, user, member, amount)
            IN  IF r.result # "True"
                THEN Failed("transfer")
                ELSE /\ accounts' = r.accounts
                     /\ transfer_logs' = tl2
                     /\ tasks' = Append(tasks, NewTask("transfer", "backup", "ok", 0,
                                                       Len(tl2) - Len(transfer_logs),
                                                       r.accounts # accounts))
                     /\ UNCHANGED <<treasury, treasury_logs, lootsplit_logs, lootsplit_recipients, views>>

transfer(user, member, amount) ==
    /\ CanStart
    /\ BotFrame
    /\ IF amount <= 0
       THEN Rejected("transfer", 0)
       ELSE IF member = user
       THEN RejectedAs("transfer", "self_transfer")
       ELSE LET r == transfer_balance(accounts, BotGuild, user, member, amount)
                tl2 == log_transfer(transfer_logs, BotGuild, user, member, amount)
            IN  IF r.result # "True"
                THEN Failed("transfer")
                ELSE /\ accounts' = r.accounts
                     /\ transfer_logs' = tl2
                     /\ tasks' = Append(tasks, NewTask("transfer", "backup", "ok", 0,
                                                       Len(tl2) - Len(transfer_logs),
                                                       r.accounts # accounts))
                     /\ UNCHANGED <<treasury, treasury_logs, lootsplit_logs, lootsplit_recipients, views>>

\* a command after "await run_excel_backup(interaction.guild)": send_message and return
command_resume(t) ==
    /\ tasks[t].cmd # "confirm"
    /\ tasks[t].pc = "backup"
    /\ tasks' = [tasks EXCEPT ![t].pc = "done"]
    /\ UNCHANGED <<tables, views>>
    /\ BotFrame

NextBot ==
    \/ \E user \in Admins, total \in LootTotals, repair \in LootRepairs, tax \in LootTaxes,
          ids \in SUBSET BotUsers : lootsplit(user, total, repair, tax, Mentions(ids))
    \/ \E v \in DOMAIN views, user \in BotUsers : confirm(v, user)
    \/ \E t \in DOMAIN tasks : confirm_resume(t)
    \/ \E v \in DOMAIN views, user \in BotUsers : cancel(v, user)
    \/ \E member \in BotUsers, amount \in BotAmounts : give_silver(member, amount)
    \/ \E user \in Admins, amount \in BotAmounts : treasury_add(user, amount)
    \/ \E member \in BotUsers, amount \in BotAmounts : take_silver(member, amount)
    \/ \E user \in Admins, amount \in BotAmounts, member \in BotUsers \cup {0} :
          treasury_take(user, amount, member)
    \/ \E user \in BotUsers, member \in BotUsers, amount \in BotAmounts : transfer(user, member, amount)
    \/ \E t \in DOMAIN tasks : command_resume(t)

SpecBot == InitBot /\ [][NextBot]_vars

(* ----------------------------------------------------------------------- *)
(* SpecSplit: one lootsplit command over a range of arguments               *)
(* ----------------------------------------------------------------------- *)

MaxTotal == 6
MaxRepair == 3
MaxCount == 3

SplitTotals == (-1..MaxTotal) \cup {50, 1000}
SplitRepairs == (-1..MaxRepair) \cup {60, 100}
SplitTaxes == -1..101
SplitCounts == (0..MaxCount) \cup {7}

\* the database holds one account and a treasury row when the command is entered
InitSplit ==
    /\ accounts = (<<BotGuild, 1>> :> 1)
    /\ treasury = (BotGuild :> 1)
    /\ transfer_logs = <<>>
    /\ treasury_logs = <<>>
    /\ lootsplit_logs = <<>>
    /\ lootsplit_recipients = {}
    /\ last = NoCall
    /\ conns = <<>>
    /\ dblock = 0
    /\ tasks = <<>>
    /\ views = <<>>
    /\ args \in [total : SplitTotals, repair : SplitRepairs, tax : SplitTaxes, n : SplitCounts]
    /\ page = NoPage
    /\ txn = NoTxn

\* /lootsplit total repair tax users, users mentioning members 1..n
SplitCommand ==
    /\ tasks = <<>>
    /\ \E user \in Admins : lootsplit(user, args.total, args.repair, args.tax, Mentions(1..args.n))

NextSplit == SplitCommand

SpecSplit == InitSplit /\ [][NextSplit]_vars

(* ----------------------------------------------------------------------- *)
(* Properties of the Database calls (SpecDb)                               *)
(* ----------------------------------------------------------------------- *)

\* Balances as get_balance / get_treasury read them before the last call
wallet_before(u) == get_balance(last.accounts, last.g, u)
wallet_after(u) == get_balance(accounts, last.g, u)
treasury_before == get_treasury(last.treasury, last.g)
treasury_after == get_treasury(treasury, last.g)

SameBalances ==
    /\ \A g \in Guilds, u \in Users : get_balance(accounts, g, u) = get_balance(last.accounts, g, u)
    /\ \A g \in Guilds : get_treasury(treasury, g) = get_treasury(last.treasury, g)

\* C1: after any sequence of Database calls with any integer amount, every
\* account wallet and every treasury balance is >= 0.
C1_NonNegative ==
    /\ \A k \in DOMAIN accounts : accounts[k] >= 0
    /\ \A g \in DOMAIN treasury : treasury[g] >= 0

\* C2: transfer_balance(S, R, a) with S # R and 0 < a <= wallet(S) returns
\* success, lowers wallet(S) by a, raises wallet(R) by a (creating R's row),
\* keeps wallet(S) + wallet(R), and changes no other wallet and no treasury.
C2_TransferMoves ==
    (/\ last.op = "transfer_balance"
     /\ last.u # last.v
     /\ last.amount > 0
     /\ last.amount <= wallet_before(last.u))
    => /\ last.result = "True"
       /\ wallet_after(last.u) = wallet_before(last.u) - last.amount
       /\ wallet_after(last.v) = wallet_before(last.v) + last.amount
       /\ wallet_after(last.u) + wallet_after(last.v) = wallet_before(last.u) + wallet_before(last.v)
       /\ <<last.g, last.v>> \in DOMAIN accounts
       /\ \A k \in (DOMAIN accounts \cup DOMAIN last.accounts) \ {<<last.g, last.u>>, <<last.g, last.v>>} :
              /\ k \in DOMAIN accounts
              /\ k \in DOMAIN last.accounts
              /\ accounts[k] = last.accounts[k]
       /\ treasury = last.treasury

C2_Witness ==
    /\ last.op = "transfer_balance"
    /\ last.u # last.v
    /\ last.amount > 0
    /\ last.result = "True"
    /\ <<last.g, last.v>> \notin DOMAIN last.accounts
    /\ wallet_after(last.v) = last.amount

\* C3: transfer_balance(S, R, a) with a > wallet(S), an absent sender
\* counting as 0, returns False and every wallet and treasury balance reads
\* the same before and after the call.
C3_TransferInsufficient ==
    (/\ last.op = "transfer_balance"
     /\ last.amount > wallet_before(last.u))
    => /\ last.result = "False"
       /\ SameBalances

C3_Witness ==
    /\ last.op = "transfer_balance"
    /\ last.amount > wallet_before(last.u)
    /\ last.result = "False"
    /\ <<last.g, last.u>> \notin DOMAIN last.accounts
    /\ wallet_before(last.v) > 0

\* C4: transfer_balance called with amount <= 0 does not return success and
\* changes neither the sender's nor the receiver's wallet.
C4_InvalidAmountRejected ==
    (/\ last.op = "transfer_balance"
     /\ last.amount <= 0)
    => /\ last.result # "True"
       /\ wallet_after(last.u) = wallet_before(last.u)
       /\ wallet_after(last.v) = wallet_before(last.v)

\* C8: add_balance with amount > 0 is unconditional: afterwards get_balance
\* is its value before the call plus amount, also when the account row did
\* not exist before the call.
C8_CreditUnconditional ==
    (/\ last.op = "add_balance"
     /\ last.amount > 0)
    => /\ last.result = "True"
       /\ wallet_after(last.u) = wallet_before(last.u) + last.amount

\* C9: deduct_balance with 0 < amount <= wallet returns success and lowers
\* the wallet by amount; deduct_balance with amount > wallet, and add_balance
\* with a negative amount that would take the wallet below zero, return
\* failure and leave the wallet unchanged.
C9_CheckedReduction ==
    /\ (/\ last.op = "deduct_balance"
        /\ last.amount > 0
        /\ last.amount <= wallet_before(last.u))
       => /\ last.result = "True"
          /\ wallet_after(last.u) = wallet_before(last.u) - last.amount
    /\ (/\ last.op = "deduct_balance"
        /\ last.amount > wallet_before(last.u))
       => /\ last.result = "False"
          /\ wallet_after(last.u) = wallet_before(last.u)
    /\ (/\ last.op = "add_balance"
        /\ last.amount < 0
        /\ wallet_before(last.u) + last.amount < 0)
       => /\ last.result = "False"
          /\ wallet_after(last.u) = wallet_before(last.u)

C9_Witness ==
    /\ last.op = "deduct_balance"
    /\ wallet_before(last.u) > 0
    /\ last.amount > wallet_before(last.u)
    /\ last.result = "False"

\* C10: deduct_treasury with amount > 0 returns success exactly when the
\* treasury balance is >= amount and then lowers it by amount; otherwise it
\* returns False and the balance is unchanged; no account wallet changes.
C10_DeductTreasury ==
    (/\ last.op = "deduct_treasury"
     /\ last.amount > 0)
    => /\ (last.result = "True") <=> (treasury_before >= last.amount)
       /\ last.result \in {"True", "False"}
       /\ last.result = "True" => treasury_after = treasury_before - last.amount
       /\ last.result = "False" => treasury_after = treasury_before
       /\ accounts = last.accounts

C10_Witness ==
    /\ last.op = "deduct_treasury"
    /\ last.amount > 0
    /\ last.result = "True"
    /\ treasury_before = last.amount


\* C11: transfer_treasury_to_user with 0 < amount <= treasury balance lowers
\* the treasury by amount and raises the user's wallet by amount, keeping
\* treasury + wallet; with amount > treasury balance it returns False and
\* the treasury and the wallet are unchanged.
C11_TreasuryToUser ==
    /\ (/\ last.op = "transfer_treasury_to_user"
        /\ last.amount > 0
        /\ last.amount <= treasury_before)
       => /\ last.result = "True"
          /\ treasury_after = treasury_before - last.amount
          /\ wallet_after(last.u) = wallet_before(last.u) + last.amount
          /\ treasury_after + wallet_after(last.u) = treasury_before + wallet_before(last.u)
    /\ (/\ last.op = "transfer_treasury_to_user"
        /\ last.amount > treasury_before)
       => /\ last.result = "False"
          /\ treasury_after = treasury_before
          /\ wallet_after(last.u) = wallet_before(last.u)

C11_Witness ==
    /\ last.op = "transfer_treasury_to_user"
    /\ last.amount > 0
    /\ last.result = "True"
    /\ <<last.g, last.u>> \notin DOMAIN last.accounts
    /\ wallet_after(last.u) = last.amount

\* C15: ensure_account never changes a balance: afterwards the account
\* exists, its wallet is 0 if it was new and its previous value otherwise,
\* every other account and the treasury are unchanged, and calling it again
\* changes nothing.
C15_EnsureIdempotent ==
    last.op = "ensure_account"
    => /\ <<last.g, last.u>> \in DOMAIN accounts
       /\ <<last.g, last.u>> \notin DOMAIN last.accounts => accounts[<<last.g, last.u>>] = 0
       /\ \A k \in DOMAIN last.accounts : k \in DOMAIN accounts /\ accounts[k] = last.accounts[k]
       /\ DOMAIN accounts = DOMAIN last.accounts \cup {<<last.g, last.u>>}
       /\ treasury = last.treasury
       /\ ensure_account(accounts, last.g, last.u).accounts = accounts

C15_Witness ==
    /\ last.op = "ensure_account"
    /\ <<last.g, last.u>> \in DOMAIN last.accounts
    /\ last.accounts[<<last.g, last.u>>] > 0

\* C16: get_balance and get_treasury are pure reads: they return the stored
\* balance, or 0 for an absent row, and leave the set of rows and every
\* balance as they were.
C16_PureReads ==
    /\ last.op = "get_balance"
       => /\ accounts = last.accounts
          /\ treasury = last.treasury
          /\ last.value = IF <<last.g, last.u>> \in DOMAIN last.accounts
                          THEN last.accounts[<<last.g, last.u>>] ELSE 0
    /\ last.op = "get_treasury"
       => /\ accounts = last.accounts
          /\ treasury = last.treasury
          /\ last.value = IF last.g \in DOMAIN last.treasury
                          THEN last.treasury[last.g] ELSE 0

C16_Witness ==
    /\ last.op = "get_balance"
    /\ <<last.g, last.u>> \notin DOMAIN accounts
    /\ last.value = 0
    /\ DOMAIN accounts # {}

(* ----------------------------------------------------------------------- *)
(* Properties of concurrent transfers (SpecConc)                           *)
(* ----------------------------------------------------------------------- *)

ConnsWith(result) == {c \in DOMAIN conns : conns[c].result = result}
AllConnsDone == \A c \in DOMAIN conns : conns[c].pc = "done"
InProgress(c) == conns[c].pc \in {"ensure_receiver", "check", "debit", "credit", "COMMIT"}

\* C5: N concurrent transfer_balance calls, each moving a out of one sender
\* whose wallet starts at N*a - 1: exactly N-1 succeed and exactly one
\* returns False, the sender's wallet is never negative, committed or inside
\* a transaction, and ends at a - 1.
C5_ConcurrentTransfers ==
    /\ get_wallet(accounts, ConcGuild, ConcSender) >= 0
    /\ \A c \in DOMAIN conns :
           InProgress(c) => get_wallet(conns[c].work, ConcGuild, ConcSender) >= 0
    /\ Cardinality(ConnsWith("True")) <= Len(conns) - 1
    /\ AllConnsDone =>
           /\ Cardinality(ConnsWith("True")) = Len(conns) - 1
           /\ Cardinality(ConnsWith("False")) = 1
           /\ \A c \in DOMAIN conns :
                  get_wallet(accounts, ConcGuild, ConcSender) = conns[c].amount - 1

C5_Witness ==
    /\ Len(conns) = MaxCalls
    /\ AllConnsDone
    /\ Cardinality(ConnsWith("True")) = MaxCalls - 1
    /\ Cardinality(ConnsWith("False")) = 1

(* ----------------------------------------------------------------------- *)
(* Properties of the commands and the confirmation view (SpecBot)          *)
(* ----------------------------------------------------------------------- *)

\* confirm handlers that changed a balance or wrote a LootSplitRecord for view v
Applications(v) ==
    {t \in DOMAIN tasks : /\ tasks[t].cmd = "confirm"
                          /\ tasks[t].view = v
                          /\ (tasks[t].mutated \/ tasks[t].logged > 0)}

\* C6: however often and in whatever interleaving Confirm is triggered on one
\* LootsplitConfirmView, the split is applied at most once: at most one
\* handler credits the recipients and the treasury, and at most one
\* LootSplitRecord is written for the view.
C6_AppliedAtMostOnce ==
    /\ \A v \in DOMAIN views : Cardinality(Applications(v)) <= 1
    /\ Len(lootsplit_logs) <= Len(views)

MutatingCommands ==
    {"transfer", "give_silver", "take_silver", "treasury_add", "treasury_take", "confirm"}

\* C7: every mutating command that succeeds appends exactly one audit record,
\* and every one that fails or is rejected appends none.
C7_OneAuditRecord ==
    \A t \in DOMAIN tasks :
        tasks[t].cmd \in MutatingCommands =>
            /\ tasks[t].outcome = "ok" => tasks[t].logged = 1
            /\ tasks[t].outcome # "ok" => tasks[t].logged = 0

(* ----------------------------------------------------------------------- *)
(* SpecHist: the audit tables and their paginated history queries           *)
(* ----------------------------------------------------------------------- *)

MaxRecords == 15        \* audit records of one kind written for guild 1
MaxOther == 2           \* audit records of one kind written for guild 2
MaxSplits == 3          \* lootsplit_logs rows written
NoLimit == 0 - 1        \* limit = None of get_treasury_history

HistLimits == {1, 5, 10}
HistOffsets == {0, 5, 10}
SplitOffsets == {0, 1}
HistRecipients == {<<>>, <<1>>, <<2, 1>>}

Min(a, b) == IF a <= b THEN a ELSE b

\* ORDER BY id DESC over rows held in insertion (id) order
OrderByIdDesc(rows) == [i \in 1..Len(rows) |-> rows[Len(rows) + 1 - i]]

\* ORDER BY id ASC
OrderByIdAsc(rows) == rows

\* LIMIT ? OFFSET ? with limit >= 0 and offset >= 0
LimitOffset(rows, limit, offset) == SubSeq(rows, offset + 1, Min(Len(rows), offset + limit))

\* WHERE guild_id = ?
WhereGuild(log, g) == SelectSeq(log, LAMBDA r : r.guild_id = g)

\* get_transfer_history with ORDER BY id ASC
get_transfer_history_asc(tl, g, limit, offset) ==
    LET picked == LimitOffset(OrderByIdAsc(WhereGuild(tl, g)), limit, offset)
    IN  [i \in DOMAIN picked |->
            [sender_id |-> picked[i].sender_id, receiver_id |-> picked[i].receiver_id,
             amount |-> picked[i].amount]]

\* SELECT sender_id, receiver_id, amount, created_at FROM transfer_logs
\* WHERE guild_id = ? ORDER BY id DESC LIMIT ? OFFSET ?
get_transfer_history(tl, g, limit, offset) ==
    LET picked == LimitOffset(OrderByIdDesc(WhereGuild(tl, g)), limit, offset)
    IN  [i \in DOMAIN picked |->
            [sender_id |-> picked[i].sender_id, receiver_id |-> picked[i].receiver_id,
             amount |-> picked[i].amount]]

\* SELECT initiator_id, action, amount, recipient_id, created_at FROM treasury_logs
\* WHERE guild_id = ? ORDER BY id DESC [LIMIT ? OFFSET ?]; no LIMIT clause when limit is None
get_treasury_history(tl, g, limit, offset) ==
    LET ordered == OrderByIdDesc(WhereGuild(tl, g))
        picked == IF limit = NoLimit THEN ordered ELSE LimitOffset(ordered, limit, offset)
    IN  [i \in DOMAIN picked |->
            [initiator_id |-> picked[i].initiator_id, action |-> picked[i].action,
             amount |-> picked[i].amount, recipient_id |-> picked[i].recipient_id]]

\* lootsplit_logs rows with their AUTOINCREMENT id (the position in the table)
WithId(ll) == [i \in DOMAIN ll |-> [id |-> i, guild_id |-> ll[i].guild_id, row |-> ll[i]]]

\* the recipient_id values of the lootsplit_recipients rows joined to one lootsplit id
Members(lr, id) == {m[2] : m \in {x \in lr : x[1] = id}}

\* COALESCE(GROUP_CONCAT(r.recipient_id), l.recipient_ids): GROUP_CONCAT is NULL for a
\* group whose only joined row is the NULL row of the LEFT JOIN.  SQLite leaves the
\* order of the concatenated values open: desc picks between ascending and descending.
\* The text "1,2" is kept as the list of the ids it names, as in log_lootsplit_row.
RecipientText(lr, l, desc) ==
    IF Members(lr, l.id) = {} THEN l.row.recipient_ids
    ELSE IF desc THEN OrderByIdDesc(SortedIds(Members(lr, l.id)))
    ELSE SortedIds(Members(lr, l.id))

\* get_lootsplit_history written with an inner JOIN
get_lootsplit_history_inner(ll, lr, g, limit, offset, ord) ==
    LET joined == SelectSeq(WithId(ll), LAMBDA l : Members(lr, l.id) # {})
        picked == LimitOffset(OrderByIdDesc(WhereGuild(joined, g)), limit, offset)
    IN  [i \in DOMAIN picked |->
            [initiator_id |-> picked[i].row.initiator_id, total |-> picked[i].row.total,
             tax_percent |-> picked[i].row.tax_percent, share |-> picked[i].row.share,
             recipient_ids |-> RecipientText(lr, picked[i], picked[i].id \in ord)]]

\* SELECT l.initiator_id, l.lootsplit_name, l.total, l.tax_percent, l.share,
\*        COALESCE(GROUP_CONCAT(r.recipient_id), l.recipient_ids), l.created_at
\* FROM lootsplit_logs l LEFT JOIN lootsplit_recipients r ON r.lootsplit_id = l.id
\* WHERE l.guild_id = ? GROUP BY l.id ORDER BY l.id DESC LIMIT ? OFFSET ?
\* ord is the set of row ids whose group GROUP_CONCAT happens to list in descending order
get_lootsplit_history(ll, lr, g, limit, offset, ord) ==
    LET picked == LimitOffset(OrderByIdDesc(WhereGuild(WithId(ll), g)), limit, offset)
    IN  [i \in DOMAIN picked |->
            [initiator_id |-> picked[i].row.initiator_id, total |-> picked[i].row.total,
             tax_percent |-> picked[i].row.tax_percent, share |-> picked[i].row.share,
             recipient_ids |-> RecipientText(lr, picked[i], picked[i].id \in ord)]]

\* Database.log_lootsplit: the lootsplit_logs row and its lootsplit_recipients rows
log_lootsplit(ll, lr, g, initiator, total, tax, tax_amount, remaining, share, count, recipient_ids) ==
    LET ll2 == log_lootsplit_row(ll, g, initiator, total, tax, tax_amount, remaining, share,
                                 count, recipient_ids)
    IN  [lootsplit_logs |-> ll2,
         lootsplit_recipients |-> log_lootsplit_members(lr, Len(ll2), recipient_ids)]

\* a lootsplit_logs row written before the lootsplit_recipients table existed
LegacyLootsplit ==
    [guild_id |-> 1, initiator_id |-> 1, total |-> 1, tax_percent |-> 0, tax_amount |-> 0,
     remaining |-> 1, share |-> 1, recipient_count |-> 1, recipient_ids |-> <<2>>]

CountOf(log, g) == Len(WhereGuild(log, g))
RoomFor(log, g, max) == CountOf(log, g) < (IF g = 1 THEN max ELSE MaxOther)

HistPage(op, g, limit, offset, rows) ==
    [op |-> op, g |-> g, limit |-> limit, offset |-> offset, rows |-> rows]

HistFrame == UNCHANGED <<accounts, treasury, last, concOnly, botOnly, args, txn>>

\* init_schema on a new database file, or on one that an earlier version of the
\* bot left with a lootsplit_logs row and no lootsplit_recipients table
InitHist ==
    /\ accounts = NoRows
    /\ treasury = NoRows
    /\ transfer_logs = <<>>
    /\ treasury_logs = <<>>
    /\ lootsplit_logs \in {<<>>, <<LegacyLootsplit>>}
    /\ lootsplit_recipients = {}
    /\ last = NoCall
    /\ conns = <<>>
    /\ dblock = 0
    /\ tasks = <<>>
    /\ views = <<>>
    /\ RestIdle

\* log_transfer; each behaviour fills and reads one audit table (the three are
\* independent), and the amount is the record's sequence number so that every
\* record is recognisable in a page
HistLogTransfer(g) ==
    /\ RoomFor(transfer_logs, g, MaxRecords)
    /\ treasury_logs = <<>> /\ lootsplit_logs = <<>>
    /\ transfer_logs' = log_transfer(transfer_logs, g, 1, 2, Len(transfer_logs) + 1)
    /\ page' = NoPage
    /\ UNCHANGED <<treasury_logs, lootsplit_logs, lootsplit_recipients>>
    /\ HistFrame

HistLogTreasury(g) ==
    /\ RoomFor(treasury_logs, g, MaxRecords)
    /\ transfer_logs = <<>> /\ lootsplit_logs = <<>>
    /\ treasury_logs' = log_treasury(treasury_logs, g, 1, "add", Len(treasury_logs) + 1, 0)
    /\ page' = NoPage
    /\ UNCHANGED <<transfer_logs, lootsplit_logs, lootsplit_recipients>>
    /\ HistFrame

HistLogLootsplit(g, recipient_ids) ==
    /\ Len(lootsplit_logs) < MaxSplits
    /\ transfer_logs = <<>> /\ treasury_logs = <<>>
    /\ LET n == Len(lootsplit_logs) + 1
           r == log_lootsplit(lootsplit_logs, lootsplit_recipients, g, 1, n, 0, 0, n, n,
                              Len(recipient_ids), recipient_ids)
       IN  /\ lootsplit_logs' = r.lootsplit_logs
           /\ lootsplit_recipients' = r.lootsplit_recipients
    /\ page' = NoPage
    /\ UNCHANGED <<transfer_logs, treasury_logs>>
    /\ HistFrame

HistTransferPage(g, limit, offset) ==
    /\ treasury_logs = <<>> /\ lootsplit_logs = <<>>
    /\ page' = HistPage("transfer", g, limit, offset,
                        get_transfer_history(transfer_logs, g, limit, offset))
    /\ UNCHANGED logs
    /\ HistFrame

HistTreasuryPage(g, limit, offset) ==
    /\ transfer_logs = <<>> /\ lootsplit_logs = <<>>
    /\ page' = HistPage("treasury", g, limit, offset,
                        get_treasury_history(treasury_logs, g, limit, offset))
    /\ UNCHANGED logs
    /\ HistFrame

HistLootsplitPage(g, limit, offset) ==
    /\ transfer_logs = <<>> /\ treasury_logs = <<>>
    /\ \E ord \in SUBSET {id \in DOMAIN lootsplit_logs :
                             Cardinality(Members(lootsplit_recipients, id)) > 1} :
           page' = HistPage("lootsplit", g, limit, offset,
                            get_lootsplit_history(lootsplit_logs, lootsplit_recipients,
                                                  g, limit, offset, ord))
    /\ UNCHANGED logs
    /\ HistFrame

NextHist ==
    \/ \E g \in Guilds : HistLogTransfer(g)
    \/ \E g \in Guilds : HistLogTreasury(g)
    \/ \E g \in Guilds, recipient_ids \in HistRecipients : HistLogLootsplit(g, recipient_ids)
    \/ \E g \in Guilds, limit \in HistLimits, offset \in HistOffsets : HistTransferPage(g, limit, offset)
    \/ \E g \in Guilds, limit \in HistLimits \cup {NoLimit}, offset \in HistOffsets :
          HistTreasuryPage(g, limit, offset)
    \/ \E g \in Guilds, limit \in HistLimits, offset \in SplitOffsets : HistLootsplitPage(g, limit, offset)

SpecHist == InitHist /\ [][NextHist]_vars

(* ----------------------------------------------------------------------- *)
(* SpecFault: the checked operations statement by statement, any statement  *)
(* of which may raise sqlite3.Error                                         *)
(* ----------------------------------------------------------------------- *)

CheckedOps == {"transfer_balance", "deduct_balance", "deduct_treasury", "transfer_treasury_to_user"}
TreasuryOps == {"deduct_treasury", "transfer_treasury_to_user"}
FaultAmounts == 0..MaxAmt

\* the statement that follows pc in the success path of op
NextPc(op, pc) ==
    IF op = "transfer_balance" THEN
        CASE pc = "BEGIN" -> "ensure_debited"
          [] pc = "ensure_debited" -> "ensure_credited"
          [] pc = "ensure_credited" -> "select"
          [] pc = "select" -> "debit"
          [] pc = "debit" -> "credit"
          [] pc = "credit" -> "COMMIT"
    ELSE IF op = "transfer_treasury_to_user" THEN
        CASE pc = "BEGIN" -> "ensure_debited"
          [] pc = "ensure_debited" -> "ensure_credited"
          [] pc = "ensure_credited" -> "select"
          [] pc = "select" -> "debit"
          [] pc = "debit" -> "credit"
          [] pc = "credit" -> "COMMIT"
    ELSE
        CASE pc = "BEGIN" -> "ensure_debited"
          [] pc = "ensure_debited" -> "select"
          [] pc = "select" -> "debit"
          [] pc = "debit" -> "COMMIT"

Statements ==
    {"BEGIN", "ensure_debited", "ensure_credited", "select", "debit", "credit", "COMMIT", "ROLLBACK"}

\* an except handler that COMMITs what the transaction did so far
except_sqlite_error_commit(t, acc, tr) ==
    [result |-> "Error", accounts |-> t.acc, treasury |-> t.tr]

\* except sqlite3.Error: conn.execute("ROLLBACK"); raise
\* The transaction's writes are dropped and the committed tables acc, tr stay; if the
\* ROLLBACK itself raises, that error propagates instead and the open transaction is
\* rolled back when the connection is closed.
except_sqlite_error(t, acc, tr) ==
    [result |-> "Error", accounts |-> acc, treasury |-> tr]

FaultFrame == UNCHANGED <<logs, last, concOnly, botOnly, args, page>>

\* a database in which account (1, 1) and the treasury of guild 1 may be funded
InitFault ==
    /\ accounts \in {NoRows, (<<1, 1>> :> MaxBal)}
    /\ treasury \in {NoRows, (1 :> MaxBal)}
    /\ transfer_logs = <<>>
    /\ treasury_logs = <<>>
    /\ lootsplit_logs = <<>>
    /\ lootsplit_recipients = {}
    /\ last = NoCall
    /\ conns = <<>>
    /\ dblock = 0
    /\ tasks = <<>>
    /\ views = <<>>
    /\ RestIdle

\* one of the four checked operations is called: with self.connect() as conn
\* (u is the debited user, 0 for the treasury; v the credited user, 0 for none)
TxnCall(op, g, u, v, amount) ==
    /\ txn.pc \in {"none", "done"}
    /\ op \in TreasuryOps <=> u = 0
    /\ op \in {"deduct_balance", "deduct_treasury"} <=> v = 0
    /\ txn' = [op |-> op, pc |-> "BEGIN", g |-> g, u |-> u, v |-> v, amount |-> amount,
               result |-> "None", faulted |-> FALSE, acc |-> accounts, tr |-> treasury,
               accounts |-> accounts, treasury |-> treasury]
    /\ UNCHANGED <<accounts, treasury>>
    /\ FaultFrame

\* conn.execute("BEGIN")
TxnBegin ==
    /\ txn.pc = "BEGIN"
    /\ txn' = [txn EXCEPT !.pc = NextPc(txn.op, "BEGIN")]
    /\ UNCHANGED <<accounts, treasury>>
    /\ FaultFrame

\* self._ensure_treasury(conn, guild_id) / self._ensure_account(conn, guild_id, ...)
TxnEnsure ==
    /\ txn.pc \in {"ensure_debited", "ensure_credited"}
    /\ txn' = [txn EXCEPT
                 !.pc = NextPc(txn.op, txn.pc),
                 !.acc = IF txn.pc = "ensure_credited" THEN ensure_account_row(txn.acc, txn.g, txn.v)
                         ELSE IF txn.op \in TreasuryOps THEN txn.acc
                         ELSE ensure_account_row(txn.acc, txn.g, txn.u),
                 !.tr = IF txn.pc = "ensure_debited" /\ txn.op \in TreasuryOps
                        THEN ensure_treasury_row(txn.tr, txn.g) ELSE txn.tr]
    /\ UNCHANGED <<accounts, treasury>>
    /\ FaultFrame

\* the SELECT of the current balance and "if current < amount"
TxnSelect ==
    /\ txn.pc = "select"
    /\ LET current == IF txn.op \in TreasuryOps THEN select_treasury(txn.tr, txn.g)
                      ELSE get_wallet(txn.acc, txn.g, txn.u)
       IN  txn' = [txn EXCEPT !.pc = IF current < txn.amount THEN "ROLLBACK"
                                     ELSE NextPc(txn.op, "select")]
    /\ UNCHANGED <<accounts, treasury>>
    /\ FaultFrame

\* UPDATE ... SET wallet = wallet - ? / SET balance = balance - ?
TxnDebit ==
    /\ txn.pc = "debit"
    /\ txn' = [txn EXCEPT
                 !.pc = NextPc(txn.op, "debit"),
                 !.acc = IF txn.op \in TreasuryOps THEN txn.acc
                         ELSE update_wallet_add(txn.acc, txn.g, txn.u, 0 - txn.amount),
                 !.tr = IF txn.op \in TreasuryOps THEN update_treasury_sub(txn.tr, txn.g, txn.amount)
                        ELSE txn.tr]
    /\ UNCHANGED <<accounts, treasury>>
    /\ FaultFrame

\* UPDATE accounts SET wallet = wallet + ?
TxnCredit ==
    /\ txn.pc = "credit"
    /\ txn' = [txn EXCEPT !.pc = NextPc(txn.op, "credit"),
                          !.acc = update_wallet_add(txn.acc, txn.g, txn.v, txn.amount)]
    /\ UNCHANGED <<accounts, treasury>>
    /\ FaultFrame

\* conn.execute("COMMIT"); return True
TxnCommit ==
    /\ txn.pc = "COMMIT"
    /\ accounts' = txn.acc
    /\ treasury' = txn.tr
    /\ txn' = [txn EXCEPT !.pc = "done", !.result = "True"]
    /\ FaultFrame

\* the insufficient path returning False without its ROLLBACK: leaving the with block
\* then commits what the transaction did
TxnRollback_commit ==
    /\ txn.pc = "ROLLBACK"
    /\ txn' = [txn EXCEPT !.pc = "done", !.result = "False"]
    /\ accounts' = txn.acc
    /\ treasury' = txn.tr
    /\ FaultFrame

\* conn.execute("ROLLBACK"); return False
TxnRollback ==
    /\ txn.pc = "ROLLBACK"
    /\ txn' = [txn EXCEPT !.pc = "done", !.result = "False"]
    /\ UNCHANGED <<accounts, treasury>>
    /\ FaultFrame

\* the statement at txn.pc raises sqlite3.Error
TxnFault ==
    /\ txn.pc \in Statements
    /\ LET r == except_sqlite_error(txn, accounts, treasury)
       IN  /\ txn' = [txn EXCEPT !.pc = "done", !.result = r.result, !.faulted = TRUE]
           /\ accounts' = r.accounts
           /\ treasury' = r.treasury
    /\ FaultFrame

NextFault ==
    \/ \E op \in CheckedOps, g \in DbGuilds, u \in Users \cup {0}, v \in Users \cup {0},
          amount \in FaultAmounts : TxnCall(op, g, u, v, amount)
    \/ TxnBegin
    \/ TxnEnsure
    \/ TxnSelect
    \/ TxnDebit
    \/ TxnCredit
    \/ TxnCommit
    \/ TxnRollback
    \/ TxnFault

SpecFault == InitFault /\ [][NextFault]_vars

(* ----------------------------------------------------------------------- *)
(* SpecLoot: LootsplitConfirmView.confirm one Database call at a time, any  *)
(* of which may raise sqlite3.Error                                         *)
(* ----------------------------------------------------------------------- *)

\* no confirm handler is running; otherwise txn holds the view being applied and
\* the number of Database calls the handler has completed
NoConfirm == [op |-> "none", view |-> 0, step |-> 0]

RECURSIVE credit_calls(_)
\* for member in self.recipients: db.ensure_account(...); db.add_balance(...)
credit_calls(recipients) ==
    IF recipients = <<>> THEN <<>>
    ELSE <<[f |-> "ensure_account", u |-> Head(recipients)],
           [f |-> "add_balance", u |-> Head(recipients)]>> \o credit_calls(Tail(recipients))

\* the Database calls confirm makes, in order, each in its own connection and transaction
confirm_calls(view) ==
    credit_calls(view.recipients)
    \o (IF view.tax_amount > 0 THEN <<[f |-> "add_treasury", u |-> 0]>> ELSE <<>>)
    \o <<[f |-> "log_lootsplit", u |-> 0]>>

InitLoot ==
    /\ accounts = NoRows
    /\ treasury = NoRows
    /\ transfer_logs = <<>>
    /\ treasury_logs = <<>>
    /\ lootsplit_logs = <<>>
    /\ lootsplit_recipients = {}
    /\ last = NoCall
    /\ conns = <<>>
    /\ dblock = 0
    /\ tasks = <<>>
    /\ views = <<>>
    /\ args = NoArgs
    /\ page = NoPage
    /\ txn = NoConfirm

LootFrame == UNCHANGED <<last, concOnly, args, page>>

\* the /lootsplit command that creates the view (one view per behaviour)
LootCommand(user, total, repair, tax, ids) ==
    /\ views = <<>>
    /\ txn = NoConfirm
    /\ lootsplit(user, total, repair, tax, Mentions(ids))

\* Confirm pressed: the owner and applied checks (lines 538-543)
ConfirmPressed(v, user) ==
    /\ CanStart
    /\ txn = NoConfirm
    /\ IF user # views[v].initiator_id \/ views[v].applied
       THEN /\ txn' = txn
            /\ tasks' = Append(tasks, NewTask("confirm", "done", "rejected", v, 0, FALSE))
       ELSE /\ txn' = [op |-> "confirm", view |-> v, step |-> 0]
            /\ tasks' = Append(tasks, NewTask("confirm", "calls", "ok", v, 0, FALSE))
    /\ UNCHANGED <<tables, views>>
    /\ LootFrame

\* the next Database call of confirm returns: its transaction is committed
ConfirmCall ==
    /\ txn.op = "confirm"
    /\ txn.step < Len(confirm_calls(views[txn.view]))
    /\ LET view == views[txn.view]
           call == confirm_calls(view)[txn.step + 1]
           logged == log_lootsplit(lootsplit_logs, lootsplit_recipients, view.guild_id,
                                   view.initiator_id, view.total, view.tax, view.tax_amount,
                                   view.remaining, view.share, Len(view.recipients),
                                   view.recipients)
       IN  /\ accounts' = IF call.f = "ensure_account"
                          THEN ensure_account(accounts, view.guild_id, call.u).accounts
                          ELSE IF call.f = "add_balance"
                          THEN add_balance(accounts, view.guild_id, call.u, view.share).accounts
                          ELSE accounts
           /\ treasury' = IF call.f = "add_treasury"
                          THEN add_treasury(treasury, view.guild_id, view.tax_amount).treasury
                          ELSE treasury
           /\ lootsplit_logs' = IF call.f = "log_lootsplit" THEN logged.lootsplit_logs
                                ELSE lootsplit_logs
           /\ lootsplit_recipients' = IF call.f = "log_lootsplit" THEN logged.lootsplit_recipients
                                      ELSE lootsplit_recipients
    /\ txn' = [txn EXCEPT !.step = @ + 1]
    /\ UNCHANGED <<transfer_logs, treasury_logs, views>>
    /\ UNCHANGED tasks
    /\ LootFrame

\* the next Database call of confirm raises sqlite3.Error: the call commits nothing, and
\* confirm, which has no try block, ends there; self.applied stays False
ConfirmFault ==
    /\ txn.op = "confirm"
    /\ txn.step < Len(confirm_calls(views[txn.view]))
    /\ txn' = NoConfirm
    /\ UNCHANGED <<tables, views>>
    /\ UNCHANGED tasks
    /\ LootFrame

\* all calls returned: await run_excel_backup; self.applied = True; buttons disabled
ConfirmDone ==
    /\ txn.op = "confirm"
    /\ txn.step = Len(confirm_calls(views[txn.view]))
    /\ views' = [views EXCEPT ![txn.view].applied = TRUE, ![txn.view].disabled = TRUE]
    /\ txn' = NoConfirm
    /\ UNCHANGED tables
    /\ UNCHANGED tasks
    /\ LootFrame

NextLoot ==
    \/ \E user \in Admins, total \in LootTotals, repair \in LootRepairs, tax \in LootTaxes,
          ids \in SUBSET BotUsers : LootCommand(user, total, repair, tax, ids)
    \/ \E v \in DOMAIN views, user \in BotUsers : ConfirmPressed(v, user)
    \/ ConfirmCall
    \/ ConfirmFault
    \/ ConfirmDone

SpecLoot == InitLoot /\ [][NextLoot]_vars

(* ----------------------------------------------------------------------- *)
(* SpecAudit: the transfer, treasury_add and treasury_take commands one     *)
(* Database call at a time, any of which may raise sqlite3.Error            *)
(* ----------------------------------------------------------------------- *)

\* no command is running; otherwise txn holds the command, its arguments and the
\* number of Database calls it has completed
NoCommand == [op |-> "none", step |-> 0, user |-> 0, member |-> 0, amount |-> 0]

\* the Database calls of a command whose amount passed validation, in order; each
\* opens its own connection and commits on return
command_calls(op, member) ==
    IF op = "transfer" THEN <<"transfer_balance", "log_transfer">>
    ELSE IF op = "treasury_add" THEN <<"add_treasury", "log_treasury">>
    ELSE IF member # 0 THEN <<"transfer_treasury_to_user", "log_treasury">>
    ELSE <<"deduct_treasury", "log_treasury">>

\* the action text a treasury command passes to log_treasury
treasury_action(op, member) ==
    IF op = "treasury_add" THEN "add" ELSE IF member # 0 THEN "transfer" ELSE "take"

\* user 1 holds MaxBal silver and the treasury of the guild holds MaxBal
InitAudit ==
    /\ accounts = (<<BotGuild, 1>> :> MaxBal)
    /\ treasury = (BotGuild :> MaxBal)
    /\ transfer_logs = <<>>
    /\ treasury_logs = <<>>
    /\ lootsplit_logs = <<>>
    /\ lootsplit_recipients = {}
    /\ last = NoCall
    /\ conns = <<>>
    /\ dblock = 0
    /\ tasks = <<>>
    /\ views = <<>>
    /\ args = NoArgs
    /\ page = NoPage
    /\ txn = NoCommand

AuditFrame == UNCHANGED <<last, concOnly, views, args, page, lootsplit_logs, lootsplit_recipients>>

\* a command is invoked: its argument checks (amount <= 0, self-transfer)
CommandInvoked(op, user, member, amount) ==
    /\ CanStart
    /\ txn = NoCommand
    /\ op = "transfer" => member # 0
    /\ op = "treasury_add" => member = 0
    /\ op # "transfer" => user \in Admins
    /\ IF amount <= 0 \/ (op = "transfer" /\ member = user)
       THEN /\ txn' = txn
            /\ tasks' = Append(tasks, NewTask(op, "done", "rejected", 0, 0, FALSE))
       ELSE /\ txn' = [op |-> op, step |-> 0, user |-> user, member |-> member, amount |-> amount]
            /\ tasks' = Append(tasks, NewTask(op, "calls", "ok", 0, 0, FALSE))
    /\ UNCHANGED <<accounts, treasury, transfer_logs, treasury_logs>>
    /\ AuditFrame

\* the next Database call of the command returns: its transaction is committed; a
\* checked operation that returns False ends the command with send_error
CommandCall ==
    /\ txn.op # "none"
    /\ txn.step < Len(command_calls(txn.op, txn.member))
    /\ LET call == command_calls(txn.op, txn.member)[txn.step + 1]
           r == IF call = "transfer_balance"
                THEN [x |-> transfer_balance(accounts, BotGuild, txn.user, txn.member, txn.amount),
                      treasury |-> treasury]
                ELSE IF call = "transfer_treasury_to_user"
                THEN [x |-> transfer_treasury_to_user(accounts, treasury, BotGuild, txn.member, txn.amount),
                      treasury |-> transfer_treasury_to_user(accounts, treasury, BotGuild,
                                                             txn.member, txn.amount).treasury]
                ELSE IF call = "deduct_treasury"
                THEN [x |-> [result |-> deduct_treasury(treasury, BotGuild, txn.amount).result,
                             accounts |-> accounts],
                      treasury |-> deduct_treasury(treasury, BotGuild, txn.amount).treasury]
                ELSE IF call = "add_treasury"
                THEN [x |-> [result |-> "True", accounts |-> accounts],
                      treasury |-> add_treasury(treasury, BotGuild, txn.amount).treasury]
                ELSE [x |-> [result |-> "True", accounts |-> accounts], treasury |-> treasury]
       IN  /\ accounts' = r.x.accounts
           /\ treasury' = r.treasury
           /\ transfer_logs' = IF call = "log_transfer"
                               THEN log_transfer(transfer_logs, BotGuild, txn.user, txn.member, txn.amount)
                               ELSE transfer_logs
           /\ treasury_logs' = IF call = "log_treasury"
                               THEN log_treasury(treasury_logs, BotGuild, txn.user,
                                                 treasury_action(txn.op, txn.member),
                                                 txn.amount, txn.member)
                               ELSE treasury_logs
           /\ txn' = IF r.x.result = "True" THEN [txn EXCEPT !.step = @ + 1] ELSE NoCommand
    /\ UNCHANGED tasks
    /\ AuditFrame

\* the next Database call of the command raises sqlite3.Error: the call commits
\* nothing and the command, which has no try block, ends there
CommandFault ==
    /\ txn.op # "none"
    /\ txn.step < Len(command_calls(txn.op, txn.member))
    /\ txn' = NoCommand
    /\ UNCHANGED <<accounts, treasury, transfer_logs, treasury_logs, tasks>>
    /\ AuditFrame

\* all calls returned: await run_excel_backup; send_message
CommandDone ==
    /\ txn.op # "none"
    /\ txn.step = Len(command_calls(txn.op, txn.member))
    /\ txn' = NoCommand
    /\ UNCHANGED <<accounts, treasury, transfer_logs, treasury_logs, tasks>>
    /\ AuditFrame

NextAudit ==
    \/ \E op \in {"transfer", "treasury_add", "treasury_take"}, user \in BotUsers,
          member \in BotUsers \cup {0}, amount \in BotAmounts :
          CommandInvoked(op, user, member, amount)
    \/ CommandCall
    \/ CommandFault
    \/ CommandDone

SpecAudit == InitAudit /\ [][NextAudit]_vars

(* ----------------------------------------------------------------------- *)
(* SpecAdd: add_balance statement by statement on one connection, against   *)
(* an add_balance or a transfer_balance on another connection               *)
(* ----------------------------------------------------------------------- *)

\* an add_balance(ConcGuild, ConcSender, amount) call about to run its SELECT
AddConn(amount) ==
    [pc |-> "select", sender |-> ConcSender, receiver |-> 0, amount |-> amount,
     work |-> NoRows, result |-> "None", current |-> 0]

\* account ConcSender exists and holds any balance (remembered in last.accounts);
\* connection 1 credits it, and connection 2 credits it too or transfers out of it
InitAdd ==
    /\ \E x \in 0..MaxBal : accounts = (<<ConcGuild, ConcSender>> :> x)
    /\ \E a \in Amounts \ {0} :
          \/ \E b \in Amounts \ {0} : conns = <<AddConn(a), AddConn(b)>>
          \/ \E b \in 1..MaxAmt, receiver \in Users \ {ConcSender} :
                conns = <<AddConn(a), NewConn(receiver, b)>>
    /\ dblock = 0
    /\ treasury = NoRows
    /\ transfer_logs = <<>>
    /\ treasury_logs = <<>>
    /\ lootsplit_logs = <<>>
    /\ lootsplit_recipients = {}
    /\ last = [NoCall EXCEPT !.accounts = accounts]
    /\ tasks = <<>>
    /\ views = <<>>
    /\ RestIdle

\* current = self._get_wallet(...); new_balance = current + amount;
\* if new_balance < 0: return False.  The SELECT runs outside any transaction.
AddSelect(c) ==
    /\ conns[c].pc = "select"
    /\ LET current == get_wallet(accounts, ConcGuild, conns[c].sender)
       IN  conns' = IF current + conns[c].amount < 0
                    THEN [conns EXCEPT ![c].pc = "done", ![c].current = current,
                                       ![c].result = "False"]
                    ELSE [conns EXCEPT ![c].pc = "update", ![c].current = current]
    /\ UNCHANGED <<accounts, dblock>>
    /\ ConcFrame

\* UPDATE accounts SET wallet = ? (new_balance): sqlite3 opens the transaction here and
\* the statement waits for the write lock
AddUpdate(c) ==
    /\ conns[c].pc = "update"
    /\ dblock = 0
    /\ dblock' = c
    /\ conns' = [conns EXCEPT ![c].pc = "exit",
                              ![c].work = update_wallet_set(accounts, ConcGuild, conns[c].sender,
                                                            conns[c].current + conns[c].amount)]
    /\ UNCHANGED accounts
    /\ ConcFrame

\* return True: the with block commits
AddExit(c) ==
    /\ conns[c].pc = "exit"
    /\ accounts' = conns[c].work
    /\ conns' = [conns EXCEPT ![c].pc = "done", ![c].work = NoRows, ![c].result = "True"]
    /\ dblock' = IF dblock = c THEN 0 ELSE dblock
    /\ ConcFrame

NextAdd ==
    \/ \E c \in DOMAIN conns : AddSelect(c)
    \/ \E c \in DOMAIN conns : AddUpdate(c)
    \/ \E c \in DOMAIN conns : AddExit(c)
    \/ \E c \in DOMAIN conns : ConnBegin(c)
    \/ \E c \in DOMAIN conns : ConnEnsureSender(c)
    \/ \E c \in DOMAIN conns : ConnEnsureReceiver(c)
    \/ \E c \in DOMAIN conns : ConnCheck(c)
    \/ \E c \in DOMAIN conns : ConnDebit(c)
    \/ \E c \in DOMAIN conns : ConnCredit(c)
    \/ \E c \in DOMAIN conns : ConnCommit(c)

SpecAdd == InitAdd /\ [][NextAdd]_vars

(* ----------------------------------------------------------------------- *)
(* Properties of the split arithmetic (SpecSplit)                           *)
(* ----------------------------------------------------------------------- *)

SplitDone == tasks # <<>>
SplitOutcome == tasks[1].outcome
ArgsAre(total, repair, tax, n) ==
    args = [total |-> total, repair |-> repair, tax |-> tax, n |-> n]
ValidSplitArgs ==
    /\ args.total > 0
    /\ args.repair >= 0
    /\ args.tax \in 0..100
    /\ args.n >= 1

\* C12: for total > 0, 0 <= flatFee < total, taxPercent in 0..100 and
\* recipientCount >= 1 the figures the lootsplit command puts in its view are
\* the reference ones: taxAmount = floor(afterFee * taxPercent / 100),
\* remaining = afterFee - taxAmount, share = floor(remaining / recipientCount),
\* with afterFee = total - flatFee; (1000, 100, 10, 3) gives 90, 810, 270 and
\* (1000, 0, 10, 7) gives 100, 900, 128.
C12_SplitMatchesReference ==
    (SplitDone /\ ValidSplitArgs /\ args.repair < args.total /\ SplitOutcome = "ok")
    => LET view == views[1]
           afterFee == args.total - args.repair
       IN  /\ 100 * view.tax_amount <= afterFee * args.tax
           /\ afterFee * args.tax < 100 * (view.tax_amount + 1)
           /\ view.remaining = afterFee - view.tax_amount
           /\ view.share * args.n <= view.remaining
           /\ view.remaining < (view.share + 1) * args.n
           /\ Len(view.recipients) = args.n
           /\ ArgsAre(1000, 100, 10, 3)
              => view.tax_amount = 90 /\ view.remaining = 810 /\ view.share = 270
           /\ ArgsAre(1000, 0, 10, 7)
              => view.tax_amount = 100 /\ view.remaining = 900 /\ view.share = 128

C12_Witness ==
    /\ SplitDone
    /\ ArgsAre(1000, 0, 10, 7)
    /\ SplitOutcome = "ok"
    /\ views[1].share = 128

\* C13: for valid arguments the lootsplit command fails with FeeExceedsTotal
\* exactly when total - flatFee <= 0 and with SplitTooSmall exactly when the
\* share is <= 0 (that is, remaining < recipientCount), and otherwise
\* succeeds; a failing command creates no view and changes no wallet,
\* treasury or audit record.
C13_SplitFailures ==
    (SplitDone /\ ValidSplitArgs)
    => LET afterFee == args.total - args.repair
           \* floor(afterFee * tax / 100) <= afterFee - n, without dividing
           shareAtLeastOne ==
               \E t \in 0..afterFee :
                   /\ 100 * t <= afterFee * args.tax
                   /\ afterFee * args.tax < 100 * (t + 1)
                   /\ afterFee - t >= args.n
       IN  /\ SplitOutcome = "FeeExceedsTotal" <=> afterFee <= 0
           /\ SplitOutcome = "SplitTooSmall" <=> (afterFee > 0 /\ ~shareAtLeastOne)
           /\ SplitOutcome \in {"FeeExceedsTotal", "SplitTooSmall", "ok"}
           /\ ArgsAre(50, 60, 0, 2) => SplitOutcome = "FeeExceedsTotal"
           /\ SplitOutcome # "ok"
              => /\ views = <<>>
                 /\ accounts = (<<BotGuild, 1>> :> 1)
                 /\ treasury = (BotGuild :> 1)
                 /\ transfer_logs = <<>>
                 /\ treasury_logs = <<>>
                 /\ lootsplit_logs = <<>>
                 /\ lootsplit_recipients = {}

C13_Witness ==
    /\ SplitDone
    /\ ValidSplitArgs
    /\ SplitOutcome = "SplitTooSmall"
    /\ args.total - args.repair > 0
    /\ args.tax < 100

C13_WitnessFee ==
    /\ SplitDone
    /\ ArgsAre(50, 60, 0, 2)
    /\ SplitOutcome = "FeeExceedsTotal"

(* ----------------------------------------------------------------------- *)
(* Properties of an applied loot split (SpecBot)                            *)
(* ----------------------------------------------------------------------- *)

wallet_in(acc, g, u) == IF <<g, u>> \in DOMAIN acc THEN acc[<<g, u>>] ELSE 0
treasury_in(tr, g) == IF g \in DOMAIN tr THEN tr[g] ELSE 0

RECURSIVE SumOver(_, _)
SumOver(S, f) ==
    IF S = {} THEN 0
    ELSE LET x == CHOOSE y \in S : TRUE
         IN  f[x] + SumOver(S \ {x}, f)

Occurrences(seq, u) == Cardinality({i \in DOMAIN seq : seq[i] = u})

\* the step is a Confirm press that applies its view
ConfirmApplies ==
    /\ Len(tasks') = Len(tasks) + 1
    /\ tasks'[Len(tasks')].cmd = "confirm"
    /\ tasks'[Len(tasks')].outcome = "ok"

\* C14: a Confirm press that applies a loot split credits exactly share to
\* each recipient and nothing to anyone else, and exactly taxAmount to the
\* treasury; the remainder remaining - share * recipientCount is in
\* 0..recipientCount-1 and goes nowhere, so the value created is
\* share * recipientCount + taxAmount <= total - flatFee.
C14_RemainderDropped ==
    [][ConfirmApplies =>
        LET view == views[tasks'[Len(tasks')].view]
            g == view.guild_id
            count == Len(view.recipients)
            remainder == view.remaining - view.share * count
            gain == [u \in BotUsers |-> wallet_in(accounts', g, u) - wallet_in(accounts, g, u)]
            created == SumOver(BotUsers, gain)
                       + (treasury_in(treasury', g) - treasury_in(treasury, g))
        IN  /\ remainder \in 0..(count - 1)
            /\ \A u \in BotUsers : gain[u] = view.share * Occurrences(view.recipients, u)
            /\ SumOver(BotUsers, gain) = view.share * count
            /\ treasury_in(treasury', g) - treasury_in(treasury, g) = view.tax_amount
            /\ created = view.share * count + view.tax_amount
            /\ created = view.total - view.repair - remainder
            /\ created <= view.total - view.repair
            /\ \A k \in DOMAIN accounts' : k[1] = g /\ k[2] \in BotUsers
    ]_vars

\* a split with a non-zero remainder and a non-zero tax has been applied
C14_Witness ==
    \E t \in DOMAIN tasks :
        /\ tasks[t].cmd = "confirm"
        /\ tasks[t].outcome = "ok"
        /\ LET view == views[tasks[t].view]
           IN  /\ view.remaining - view.share * Len(view.recipients) > 0
               /\ view.tax_amount > 0

(* ----------------------------------------------------------------------- *)
(* Properties of the history queries (SpecHist)                             *)
(* ----------------------------------------------------------------------- *)

\* the audit table a history call reads
LogOf(kind) ==
    IF kind = "transfer" THEN transfer_logs
    ELSE IF kind = "treasury" THEN treasury_logs
    ELSE lootsplit_logs

\* insertion sequence numbers (ids) of guild g's records of one kind
IdsOf(kind, g) == {i \in DOMAIN LogOf(kind) : LogOf(kind)[i].guild_id = g}

\* the id ranked r-th from newest among ids
RankId(ids, r) == CHOOSE i \in ids : Cardinality({j \in ids : j > i}) = r - 1

\* the sequence number carried by a returned row (its amount, or its total for a loot split)
KeyOf(kind, row) == IF kind = "lootsplit" THEN row.total ELSE row.amount

Keys(kind, rows) == [i \in DOMAIN rows |-> KeyOf(kind, rows[i])]

\* the page history(g, limit, offset) of one kind on the current tables
PageOf(kind, g, limit, offset) ==
    IF kind = "transfer" THEN get_transfer_history(transfer_logs, g, limit, offset)
    ELSE IF kind = "treasury" THEN get_treasury_history(treasury_logs, g, limit, offset)
    ELSE get_lootsplit_history(lootsplit_logs, lootsplit_recipients, g, limit, offset, {})

RECURSIVE PagesFrom(_, _, _, _)
\* the pages at offsets offset, offset + limit, ... one after the other
PagesFrom(kind, g, limit, offset) ==
    IF offset >= Cardinality(IdsOf(kind, g)) THEN <<>>
    ELSE Keys(kind, PageOf(kind, g, limit, offset)) \o PagesFrom(kind, g, limit, offset + limit)

\* C17: history(community, limit, offset) of each audit kind returns the
\* community's records newest-first by insertion sequence: with k records,
\* exactly those ranked offset+1 .. min(offset+limit, k) from newest, in that
\* order; after 15 transfer records, limit 5 and offset 10 give the 5 oldest,
\* newest first; the pages at offsets 0, limit, 2*limit, ... are disjoint and
\* together list every record once.
C17_HistoryPages ==
    (page.op \in {"transfer", "treasury", "lootsplit"} /\ page.limit # NoLimit)
    => LET ids == IdsOf(page.op, page.g)
           k == Cardinality(ids)
           last_rank == Min(page.offset + page.limit, k)
           keys == Keys(page.op, page.rows)
       IN  /\ Len(keys) = IF last_rank > page.offset THEN last_rank - page.offset ELSE 0
           /\ \A i \in DOMAIN keys : keys[i] = RankId(ids, page.offset + i)
           /\ \A i, j \in DOMAIN keys : i < j => keys[i] > keys[j]
           /\ (page.op = "transfer" /\ k = 15 /\ page.limit = 5 /\ page.offset = 10)
              => /\ Len(keys) = 5
                 /\ \A i \in DOMAIN keys : \A o \in ids :
                        o \notin {keys[j] : j \in DOMAIN keys} => o > keys[i]
           /\ LET all == PagesFrom(page.op, page.g, page.limit, 0)
              IN  /\ Len(all) = k
                  /\ {all[i] : i \in DOMAIN all} = ids
                  /\ \A i, j \in DOMAIN all : i # j => all[i] # all[j]

C17_Witness ==
    /\ page.op = "transfer"
    /\ page.g = 1
    /\ Cardinality(IdsOf("transfer", 1)) = 15
    /\ Len(transfer_logs) > 15
    /\ page.limit = 5
    /\ page.offset = 10
    /\ Len(page.rows) = 5
    /\ page.rows[5].amount = RankId(IdsOf("transfer", 1), 15)

\* C18: each row returned by get_lootsplit_history lists the recipient ids of
\* the record's lootsplit_recipients rows when there is at least one, and the
\* stored recipient_ids text when there is none; records without membership
\* rows are returned like any other.
C18_RecipientSource ==
    page.op = "lootsplit"
    => LET ids == IdsOf("lootsplit", page.g)
           k == Cardinality(ids)
           last_rank == Min(page.offset + page.limit, k)
       IN  /\ Len(page.rows) = IF last_rank > page.offset THEN last_rank - page.offset ELSE 0
           /\ \A i \in DOMAIN page.rows :
                  LET id == RankId(ids, page.offset + i)
                      members == {m \in Users : <<id, m>> \in lootsplit_recipients}
                      listed == page.rows[i].recipient_ids
                  IN  /\ page.rows[i].total = lootsplit_logs[id].total
                      /\ members # {}
                         => /\ {listed[n] : n \in DOMAIN listed} = members
                            /\ Len(listed) = Cardinality(members)
                      /\ members = {}
                         => listed = lootsplit_logs[id].recipient_ids

\* a page holding a record without membership rows (stored text "2") and one with two
C18_Witness ==
    /\ page.op = "lootsplit"
    /\ \E i \in DOMAIN page.rows :
           /\ page.rows[i].recipient_ids = <<2>>
           /\ \A m \in Users : <<page.rows[i].total, m>> \notin lootsplit_recipients
    /\ \E i \in DOMAIN page.rows :
           /\ page.rows[i].recipient_ids = <<1, 2>>
           /\ lootsplit_logs[page.rows[i].total].recipient_ids = <<2, 1>>

(* ----------------------------------------------------------------------- *)
(* Properties of storage faults (SpecFault)                                 *)
(* ----------------------------------------------------------------------- *)

\* C19: when a statement of transfer_balance, deduct_balance, deduct_treasury
\* or transfer_treasury_to_user raises a storage fault, the call ends with the
\* error propagated (neither True nor False is returned) and the committed
\* accounts and treasury are those from before the call; nothing a call
\* writes is committed before its COMMIT.
C19_FaultRollsBack ==
    /\ txn.faulted
       => /\ txn.result = "Error"
          /\ accounts = txn.accounts
          /\ treasury = txn.treasury
    /\ txn.pc \in Statements
       => /\ accounts = txn.accounts
          /\ treasury = txn.treasury
    /\ (txn.pc = "done" /\ ~txn.faulted) => txn.result \in {"True", "False"}

\* a fault after the debit of a transfer reached the transaction's tables
C19_Witness ==
    /\ txn.faulted
    /\ txn.op = "transfer_balance"
    /\ txn.acc # txn.accounts
    /\ get_wallet(txn.acc, txn.g, txn.u) = get_wallet(txn.accounts, txn.g, txn.u) - txn.amount
    /\ txn.amount > 0
    /\ accounts = txn.accounts

(* ----------------------------------------------------------------------- *)
(* Properties of a loot split interrupted by a fault (SpecLoot)             *)
(* ----------------------------------------------------------------------- *)

\* the view has been applied exactly m times and nothing else was written
AppliedTimes(view, m) ==
    /\ \A u \in BotUsers :
           wallet_in(accounts, view.guild_id, u) = m * view.share * Occurrences(view.recipients, u)
    /\ treasury_in(treasury, view.guild_id) = m * view.tax_amount
    /\ Len(lootsplit_logs) = m

\* C20: applying a loot split is all-or-nothing: whenever no confirm handler
\* is running, either every recipient has been credited share, the treasury
\* tax_amount and the LootSplitRecord written, or none of these has happened.
C20_AllOrNothing ==
    (txn = NoConfirm /\ views # <<>>)
    => \/ AppliedTimes(views[1], 0)
       \/ AppliedTimes(views[1], 1)

(* ----------------------------------------------------------------------- *)
(* Properties of balance changes and their audit records (SpecAudit)        *)
(* ----------------------------------------------------------------------- *)

\* the sum of the amounts of the records of log that satisfy keep
Logged(log, keep(_)) ==
    SumOver(DOMAIN log, [i \in DOMAIN log |-> IF keep(log[i]) THEN log[i].amount ELSE 0])

\* C21: a balance change and its audit record are committed together: whenever
\* no command is running, every wallet and the treasury differ from their
\* initial values by exactly what the TransferRecords and
\* TreasuryActionRecords say, so no change is without its record and no record
\* without its change.
C21_AuditAtomic ==
    txn = NoCommand
    => /\ \A u \in BotUsers :
              wallet_in(accounts, BotGuild, u)
              = (IF u = 1 THEN MaxBal ELSE 0)
                + Logged(transfer_logs, LAMBDA r : r.receiver_id = u)
                - Logged(transfer_logs, LAMBDA r : r.sender_id = u)
                + Logged(treasury_logs, LAMBDA r : r.action = "transfer" /\ r.recipient_id = u)
       /\ treasury_in(treasury, BotGuild)
          = MaxBal + Logged(treasury_logs, LAMBDA r : r.action = "add")
                   - Logged(treasury_logs, LAMBDA r : r.action # "add")

(* ----------------------------------------------------------------------- *)
(* Properties of add_balance against a concurrent call (SpecAdd)            *)
(* ----------------------------------------------------------------------- *)

\* the call of connection c executed alone on the accounts table acc
Alone(acc, c) ==
    IF conns[c].receiver = 0
    THEN add_balance(acc, ConcGuild, conns[c].sender, conns[c].amount)
    ELSE transfer_balance(acc, ConcGuild, conns[c].sender, conns[c].receiver, conns[c].amount)

\* the accounts table and the return values are those of first, then second, run
\* alone from the table the two calls started with (kept in last.accounts)
InOrder(first, second) ==
    LET r1 == Alone(last.accounts, first)
        r2 == Alone(r1.accounts, second)
    IN  /\ accounts = r2.accounts
        /\ conns[first].result = r1.result
        /\ conns[second].result = r2.result

\* C22: calls on the same account are serialized: when an add_balance and
\* another add_balance or transfer_balance on the same account have both
\* ended, the wallets and the two return values are those of running the two
\* calls one after the other in some order, from every initial balance.
C22_Serialized ==
    (\A c \in DOMAIN conns : conns[c].pc = "done")
    => \/ InOrder(1, 2)
       \/ InOrder(2, 1)

(* ----------------------------------------------------------------------- *)
(* SpecIso: the Database calls on two guilds that share their user ids     *)
(* ----------------------------------------------------------------------- *)

\* user 1 is a member of both guilds, user 2 of guild 1 only
IsoUsers(g) == IF g = 1 THEN {1, 2} ELSE {1}
IsoWallets == {0, 1}
IsoAmounts == {1}
IsoLimits == {1, 10}

\* SELECT user_id, wallet FROM accounts WHERE guild_id = ? AND wallet > 0
\* ORDER BY wallet DESC, user_id ASC LIMIT ? OFFSET ?
get_leaderboard(acc, g, limit, offset) ==
    LET rows == {k \in DOMAIN acc : k[1] = g /\ acc[k] > 0}
        Before(a, b) == acc[a] > acc[b] \/ (acc[a] = acc[b] /\ a[2] < b[2])
        ordered == [i \in 1..Cardinality(rows) |->
                       CHOOSE k \in rows : Cardinality({j \in rows : Before(j, k)}) = i - 1]
        picked == LimitOffset(ordered, limit, offset)
    IN  [i \in DOMAIN picked |-> [user_id |-> picked[i][2], wallet |-> acc[picked[i]]]]

\* get_total_silver without its WHERE clause
get_total_silver_all(acc, g) == SumOver(DOMAIN acc, acc)

\* SELECT COALESCE(SUM(wallet), 0) FROM accounts WHERE guild_id = ?
get_total_silver(acc, g) == SumOver({k \in DOMAIN acc : k[1] = g}, acc)

\* SELECT COUNT(*) FROM accounts WHERE guild_id = ? AND wallet > 0
get_leaderboard_count(acc, g) == Cardinality({k \in DOMAIN acc : k[1] = g /\ acc[k] > 0})

IsoFrame == UNCHANGED <<concOnly, botOnly, args, txn>>

IsoSmall(f) == \A k \in DOMAIN f : f[k] \in IsoWallets

\* the call op(g, ...) returned result; it is the latest call
IsoCall(op, g, result) ==
    /\ last' = [NoCall EXCEPT !.op = op, !.g = g, !.result = result]
    /\ page' = NoPage
    /\ IsoFrame

\* a call that returns rows read for guild g
IsoRead(op, g, limit, offset, rows) ==
    /\ page' = HistPage(op, g, limit, offset, rows)
    /\ last' = NoCall
    /\ UNCHANGED <<treasury, logs>>
    /\ IsoFrame

InitIso == InitDb

IsoEnsureAccount(g, u) ==
    LET r == ensure_account(accounts, g, u)
    IN  /\ accounts' = r.accounts
        /\ IsoCall("ensure_account", g, r.result)
        /\ UNCHANGED <<treasury, logs>>

IsoAddBalance(g, u, amount) ==
    LET r == add_balance(accounts, g, u, amount)
    IN  /\ IsoSmall(r.accounts)
        /\ accounts' = r.accounts
        /\ IsoCall("add_balance", g, r.result)
        /\ UNCHANGED <<treasury, logs>>

IsoDeductBalance(g, u, amount) ==
    LET r == deduct_balance(accounts, g, u, amount)
    IN  /\ accounts' = r.accounts
        /\ IsoCall("deduct_balance", g, r.result)
        /\ UNCHANGED <<treasury, logs>>

IsoTransferBalance(g, s, r, amount) ==
    LET res == transfer_balance(accounts, g, s, r, amount)
    IN  /\ IsoSmall(res.accounts)
        /\ accounts' = res.accounts
        /\ IsoCall("transfer_balance", g, res.result)
        /\ UNCHANGED <<treasury, logs>>

IsoAddTreasury(g, amount) ==
    LET r == add_treasury(treasury, g, amount)
    IN  /\ IsoSmall(r.treasury)
        /\ treasury' = r.treasury
        /\ IsoCall("add_treasury", g, r.result)
        /\ UNCHANGED <<accounts, logs>>

IsoDeductTreasury(g, amount) ==
    LET r == deduct_treasury(treasury, g, amount)
    IN  /\ treasury' = r.treasury
        /\ IsoCall("deduct_treasury", g, r.result)
        /\ UNCHANGED <<accounts, logs>>

IsoTransferTreasuryToUser(g, u, amount) ==
    LET r == transfer_treasury_to_user(accounts, treasury, g, u, amount)
    IN  /\ IsoSmall(r.accounts)
        /\ accounts' = r.accounts
        /\ treasury' = r.treasury
        /\ IsoCall("transfer_treasury_to_user", g, r.result)
        /\ UNCHANGED logs

\* one audit record of each kind per guild; each behaviour fills one audit table
IsoLogTransfer(g) ==
    /\ CountOf(transfer_logs, g) = 0
    /\ treasury_logs = <<>> /\ lootsplit_logs = <<>>
    /\ transfer_logs' = log_transfer(transfer_logs, g, 1, 2, g)
    /\ IsoCall("log_transfer", g, "None")
    /\ UNCHANGED <<accounts, treasury, treasury_logs, lootsplit_logs, lootsplit_recipients>>

IsoLogTreasury(g) ==
    /\ CountOf(treasury_logs, g) = 0
    /\ transfer_logs = <<>> /\ lootsplit_logs = <<>>
    /\ treasury_logs' = log_treasury(treasury_logs, g, 1, "add", g, 0)
    /\ IsoCall("log_treasury", g, "None")
    /\ UNCHANGED <<accounts, treasury, transfer_logs, lootsplit_logs, lootsplit_recipients>>

IsoLogLootsplit(g) ==
    /\ CountOf(lootsplit_logs, g) = 0
    /\ transfer_logs = <<>> /\ treasury_logs = <<>>
    /\ LET r == log_lootsplit(lootsplit_logs, lootsplit_recipients, g, 1, g, 0, 0, g, g, 1, <<g>>)
       IN  /\ lootsplit_logs' = r.lootsplit_logs
           /\ lootsplit_recipients' = r.lootsplit_recipients
    /\ IsoCall("log_lootsplit", g, "None")
    /\ UNCHANGED <<accounts, treasury, transfer_logs, treasury_logs>>

IsoGetBalance(g, u) ==
    LET r == get_balance_call(accounts, g, u)
    IN  /\ accounts' = r.accounts
        /\ IsoRead("get_balance", g, 0, 0, <<[user_id |-> u, wallet |-> r.result]>>)

IsoGetTreasury(g) ==
    LET r == get_treasury_call(treasury, g)
    IN  /\ r.treasury = treasury
        /\ UNCHANGED accounts
        /\ IsoRead("get_treasury", g, 0, 0, <<r.result>>)

IsoGetTotalSilver(g) ==
    /\ UNCHANGED accounts
    /\ IsoRead("get_total_silver", g, 0, 0, <<get_total_silver(accounts, g)>>)

IsoGetLeaderboard(g, limit) ==
    /\ UNCHANGED accounts
    /\ IsoRead("get_leaderboard", g, limit, 0, get_leaderboard(accounts, g, limit, 0))

IsoGetLeaderboardCount(g) ==
    /\ UNCHANGED accounts
    /\ IsoRead("get_leaderboard_count", g, 0, 0, <<get_leaderboard_count(accounts, g)>>)

IsoTransferHistory(g, limit) ==
    /\ UNCHANGED accounts
    /\ IsoRead("get_transfer_history", g, limit, 0,
               get_transfer_history(transfer_logs, g, limit, 0))

IsoTreasuryHistory(g, limit) ==
    /\ UNCHANGED accounts
    /\ IsoRead("get_treasury_history", g, limit, 0,
               get_treasury_history(treasury_logs, g, limit, 0))

IsoLootsplitHistory(g, limit) ==
    /\ UNCHANGED accounts
    /\ IsoRead("get_lootsplit_history", g, limit, 0,
               get_lootsplit_history(lootsplit_logs, lootsplit_recipients, g, limit, 0, {}))

NextIso ==
    \/ \E g \in Guilds : \E u \in IsoUsers(g) : IsoEnsureAccount(g, u)
    \/ \E g \in Guilds : \E u \in IsoUsers(g), amount \in IsoAmounts : IsoAddBalance(g, u, amount)
    \/ \E g \in Guilds : \E u \in IsoUsers(g), amount \in IsoAmounts : IsoDeductBalance(g, u, amount)
    \/ \E g \in Guilds : \E s \in IsoUsers(g), r \in IsoUsers(g), amount \in IsoAmounts :
          IsoTransferBalance(g, s, r, amount)
    \/ \E g \in Guilds, amount \in IsoAmounts : IsoAddTreasury(g, amount)
    \/ \E g \in Guilds, amount \in IsoAmounts : IsoDeductTreasury(g, amount)
    \/ \E g \in Guilds : \E u \in IsoUsers(g), amount \in IsoAmounts : IsoTransferTreasuryToUser(g, u, amount)
    \/ \E g \in Guilds : IsoLogTransfer(g)
    \/ \E g \in Guilds : IsoLogTreasury(g)
    \/ \E g \in Guilds : IsoLogLootsplit(g)
    \/ \E g \in Guilds : \E u \in IsoUsers(g) : IsoGetBalance(g, u)
    \/ \E g \in Guilds : IsoGetTreasury(g)
    \/ \E g \in Guilds : IsoGetTotalSilver(g)
    \/ \E g \in Guilds, limit \in IsoLimits : IsoGetLeaderboard(g, limit)
    \/ \E g \in Guilds : IsoGetLeaderboardCount(g)
    \/ \E g \in Guilds, limit \in IsoLimits : IsoTransferHistory(g, limit)
    \/ \E g \in Guilds, limit \in IsoLimits : IsoTreasuryHistory(g, limit)
    \/ \E g \in Guilds, limit \in IsoLimits : IsoLootsplitHistory(g, limit)

SpecIso == InitIso /\ [][NextIso]_vars

(* ----------------------------------------------------------------------- *)
(* Isolation of guilds (SpecIso)                                           *)
(* ----------------------------------------------------------------------- *)

\* the rows of guild g
OwnAccounts(acc, g) == [k \in {x \in DOMAIN acc : x[1] = g} |-> acc[k]]
OwnTreasury(tr, g) == [k \in DOMAIN tr \cap {g} |-> tr[k]]

\* lootsplit_logs with the rows of other guilds blanked (the ids stay), and the
\* lootsplit_recipients rows of the rows of guild g
OwnSplits(ll, g) ==
    [i \in DOMAIN ll |-> IF ll[i].guild_id = g THEN ll[i]
                         ELSE [LegacyLootsplit EXCEPT !.guild_id = 0, !.recipient_ids = <<>>]]
OwnMembers(ll, lr, g) == {m \in lr : ll[m[1]].guild_id = g}

\* everything the database holds for guild g
GuildData(g) ==
    <<OwnAccounts(accounts, g), OwnTreasury(treasury, g), WhereGuild(transfer_logs, g),
      WhereGuild(treasury_logs, g), WhereGuild(lootsplit_logs, g),
      {<<lootsplit_logs[m[1]], m[2]>> : m \in OwnMembers(lootsplit_logs, lootsplit_recipients, g)}>>

\* the latest read returned what the rows of its own guild give
IsoReadsOwn ==
    LET g == page.g
        acc == OwnAccounts(accounts, g)
    IN  /\ page.op = "get_balance"
           => page.rows[1].wallet = wallet_in(acc, g, page.rows[1].user_id)
        /\ page.op = "get_treasury" => page.rows = <<treasury_in(OwnTreasury(treasury, g), g)>>
        /\ page.op = "get_total_silver"
           => page.rows = <<SumOver({u \in Users : <<g, u>> \in DOMAIN accounts},
                                    [u \in Users |-> wallet_in(accounts, g, u)])>>
        /\ page.op = "get_leaderboard"
           => /\ page.rows = get_leaderboard(acc, g, page.limit, page.offset)
              /\ \A i \in DOMAIN page.rows :
                    page.rows[i].wallet = wallet_in(accounts, g, page.rows[i].user_id)
        /\ page.op = "get_leaderboard_count"
           => page.rows = <<Cardinality({u \in Users : wallet_in(accounts, g, u) > 0})>>
        /\ page.op = "get_transfer_history"
           => page.rows = get_transfer_history(WhereGuild(transfer_logs, g), g,
                                               page.limit, page.offset)
        /\ page.op = "get_treasury_history"
           => page.rows = get_treasury_history(WhereGuild(treasury_logs, g), g,
                                               page.limit, page.offset)
        /\ page.op = "get_lootsplit_history"
           => page.rows = get_lootsplit_history(
                              OwnSplits(lootsplit_logs, g),
                              OwnMembers(lootsplit_logs, lootsplit_recipients, g),
                              g, page.limit, page.offset, {})

\* a call for guild g leaves what the database holds for the other guilds as it was
IsoWritesOwn ==
    \A g \in Guilds :
        (last'.g = g \/ page'.g = g)
        => \A h \in Guilds \ {g} : GuildData(h)' = GuildData(h)

\* C23: guilds are isolated.  Every Database call made for a guild g leaves the
\* wallets, the treasury and the audit records of every other guild unchanged, and
\* every balance, treasury, history, leaderboard and total read for g returns what
\* the rows of g alone give, also when the same user id holds accounts in both guilds.
C23_GuildsIsolated == []IsoReadsOwn /\ [][IsoWritesOwn]_vars

\* user 1 holds silver in both guilds and the total of guild 1 was read
C23_Witness ==
    /\ page.op = "get_total_silver"
    /\ page.g = 1
    /\ wallet_in(accounts, 1, 1) > 0
    /\ wallet_in(accounts, 2, 1) > 0

(* ----------------------------------------------------------------------- *)
(* SpecUsers: loot splits over every form of the users argument            *)
(* (mentions or raw ids, and @name tokens that may name a member twice)    *)
(* ----------------------------------------------------------------------- *)

NameLists == {<<1>>, <<1, 1>>, <<2, 1>>, <<1, 2, 1>>}
UsersArgs == {Mentions(ids) : ids \in SUBSET BotUsers} \cup {Named(names) : names \in NameLists}

NextUsers ==
    \/ \E user \in Admins, total \in LootTotals, repair \in LootRepairs, tax \in LootTaxes,
          users \in UsersArgs : lootsplit(user, total, repair, tax, users)
    \/ \E v \in DOMAIN views, user \in BotUsers : confirm(v, user)
    \/ \E t \in DOMAIN tasks : confirm_resume(t)
    \/ \E v \in DOMAIN views, user \in BotUsers : cancel(v, user)

SpecUsers == InitBot /\ [][NextUsers]_vars

\* C24: every lootsplit_logs row written by a confirmed loot split has
\* recipient_count equal to the number of ids listed in its recipient_ids,
\* recipient_count >= 1, share >= 1 and share * recipient_count <= remaining.
C24_RecordInvariants ==
    \A i \in DOMAIN lootsplit_logs :
        LET r == lootsplit_logs[i]
        IN  /\ r.recipient_count = Len(r.recipient_ids)
            /\ r.recipient_count >= 1
            /\ r.share >= 1
            /\ r.share * r.recipient_count <= r.remaining

\* a confirmed split whose users argument named member 1 twice and that leaves a
\* remainder
C24_Witness ==
    \E i \in DOMAIN lootsplit_logs :
        /\ lootsplit_logs[i].recipient_ids = <<1, 1>>
        /\ lootsplit_logs[i].share * 2 < lootsplit_logs[i].remaining

\* C25: a confirmation view is one-shot.  Once the initiator's Cancel on a view
\* has completed, no later Confirm on that view changes a wallet or the treasury
\* or writes a lootsplit_logs row.
C25_CancelIsFinal ==
    \A i \in DOMAIN tasks : \A j \in DOMAIN tasks :
        (/\ i < j
         /\ tasks[i].cmd = "cancel"
         /\ tasks[i].outcome = "canceled"
         /\ tasks[j].cmd = "confirm"
         /\ tasks[j].view = tasks[i].view)
        => (~tasks[j].mutated /\ tasks[j].logged = 0)

(* ----------------------------------------------------------------------- *)
(* SpecInts: the bot commands called with integers of either sign          *)
(* ----------------------------------------------------------------------- *)

IntAmounts == {0 - 1, 0, 1}
IntTotals == {0 - 1, 5}
IntRepairs == {0 - 1, 0}
IntTaxes == {50, 101}

NextInts ==
    \/ \E user \in BotUsers, member \in BotUsers \cup {0} : balance(user, member)
    \/ \E user \in BotUsers, member \in BotUsers, amount \in IntAmounts : transfer(user, member, amount)
    \/ \E member \in BotUsers, amount \in IntAmounts : give_silver(member, amount)
    \/ \E member \in BotUsers, amount \in IntAmounts : take_silver(member, amount)
    \/ \E user \in Admins, amount \in IntAmounts : treasury_add(user, amount)
    \/ \E user \in Admins, amount \in IntAmounts, member \in BotUsers \cup {0} :
          treasury_take(user, amount, member)
    \/ \E user \in Admins, total \in IntTotals, repair \in IntRepairs, tax \in IntTaxes,
          ids \in {{}, BotUsers} : lootsplit(user, total, repair, tax, Mentions(ids))
    \/ \E v \in DOMAIN views, user \in BotUsers : confirm(v, user)
    \/ \E t \in DOMAIN tasks : confirm_resume(t)
    \/ \E v \in DOMAIN views, user \in BotUsers : cancel(v, user)
    \/ \E t \in DOMAIN tasks : command_resume(t)

SpecInts == InitBot /\ [][NextInts]_vars

\* C26: under any interleaving of the bot commands (balance, transfer, give_silver,
\* take_silver, treasury_add, treasury_take, lootsplit followed by confirm or
\* cancel) called with any integer arguments, every wallet and the treasury
\* balance stay >= 0.
C26_CommandsNonNegative ==
    /\ \A k \in DOMAIN accounts : accounts[k] >= 0
    /\ \A g \in DOMAIN treasury : treasury[g] >= 0

\* a wallet was emptied by take_silver and a further take_silver was then refused
C26_Witness ==
    \E i, j \in DOMAIN tasks :
        /\ i < j
        /\ tasks[i].cmd = "take_silver" /\ tasks[i].outcome = "ok"
        /\ tasks[j].cmd = "take_silver" /\ tasks[j].outcome = "failed"
        /\ \E u \in BotUsers : <<BotGuild, u>> \in DOMAIN accounts /\ accounts[<<BotGuild, u>>] = 0

\* C27: the transfer command refuses a transfer to oneself before it calls the
\* Database.  For every amount the step changes no wallet, creates no account row
\* and writes no transfer_logs row (nor anything else in the database).
C27_SelfTransferRejected ==
    [][\A user \in BotUsers, amount \in IntAmounts :
           transfer(user, user, amount) => UNCHANGED tables]_vars

\* a member who holds silver, and so could pay, was refused a transfer to themself
C27_Witness ==
    /\ \E t \in DOMAIN tasks : tasks[t].cmd = "transfer" /\ tasks[t].outcome = "self_transfer"
    /\ \A u \in BotUsers : wallet_in(accounts, BotGuild, u) > 0
    /\ transfer_logs = <<>>

\* the transfer commands that ended as outcome
TransfersWith(outcome) ==
    {t \in DOMAIN tasks : tasks[t].cmd = "transfer" /\ tasks[t].outcome = outcome}

TransferLogMatches ==
    /\ Len(transfer_logs) = Cardinality(TransfersWith("ok"))
    /\ \A t \in DOMAIN tasks :
          tasks[t].cmd = "transfer"
          => tasks[t].logged = (IF tasks[t].outcome = "ok" THEN 1 ELSE 0)
    /\ \A i \in DOMAIN transfer_logs :
          /\ transfer_logs[i].amount > 0
          /\ transfer_logs[i].sender_id # transfer_logs[i].receiver_id

TransferLogAppendOnly ==
    /\ Len(transfer_logs') >= Len(transfer_logs)
    /\ SubSeq(transfer_logs', 1, Len(transfer_logs)) = transfer_logs

\* C28: in every reachable state transfer_logs holds exactly one row per transfer
\* command that succeeded and none for one that was rejected (amount <= 0,
\* self-transfer) or that failed (insufficient funds); every row has amount > 0
\* and sender_id # receiver_id; a row once written is never changed or removed.
C28_TransferLog == []TransferLogMatches /\ [][TransferLogAppendOnly]_vars

\* one transfer succeeded and was recorded, a later one failed for lack of funds
C28_Witness ==
    /\ Len(transfer_logs) = 1
    /\ \E i \in TransfersWith("ok") : \E j \in TransfersWith("failed") : i < j

\* the ids listed in a recipient list
IdSet(ids) == {ids[i] : i \in DOMAIN ids}

\* C29: one applied loot split credits each member exactly one share: the wallet
\* of a member rises by share if the member is a recipient and by 0 otherwise,
\* however the users argument was resolved (mentions, raw ids, @name tokens,
\* the same member named more than once).
C29_OneShareEach ==
    [][ConfirmApplies =>
        LET view == views[tasks'[Len(tasks')].view]
            g == view.guild_id
        IN  \A u \in BotUsers :
                wallet_in(accounts', g, u) - wallet_in(accounts, g, u)
                = (IF u \in IdSet(view.recipients) THEN view.share ELSE 0)
    ]_vars

\* C30: for every lootsplit_logs row written by log_lootsplit, lootsplit_recipients
\* holds one row per recipient: the number of its rows for the record equals
\* recipient_count, and the set of their recipient ids equals the ids of the
\* stored recipient_ids list.
C30_MembershipRows ==
    \A i \in DOMAIN lootsplit_logs :
        /\ Cardinality(Members(lootsplit_recipients, i)) = lootsplit_logs[i].recipient_count
        /\ Members(lootsplit_recipients, i) = IdSet(lootsplit_logs[i].recipient_ids)

(* ----------------------------------------------------------------------- *)
(* Properties of a checked operation refused for lack of funds (SpecFault) *)
(* ----------------------------------------------------------------------- *)

\* C31: a transfer_balance, deduct_balance, deduct_treasury or
\* transfer_treasury_to_user that returns False for insufficient funds leaves the
\* committed accounts and treasury tables exactly as before the call, the set of
\* rows included: the rows it ensured inside its transaction are rolled back.
C31_FailedLeavesNoRows ==
    (txn.pc = "done" /\ txn.result = "False")
    => /\ accounts = txn.accounts
       /\ treasury = txn.treasury
       /\ DOMAIN accounts = DOMAIN txn.accounts
       /\ DOMAIN treasury = DOMAIN txn.treasury

\* a transfer from the treasury was refused after its transaction had inserted both
\* the treasury row and the account row
C31_Witness ==
    /\ txn.pc = "done"
    /\ txn.result = "False"
    /\ txn.op = "transfer_treasury_to_user"
    /\ txn.g \in DOMAIN txn.tr /\ txn.g \notin DOMAIN treasury
    /\ <<txn.g, txn.v>> \in DOMAIN txn.acc /\ <<txn.g, txn.v>> \notin DOMAIN accounts

(* ----------------------------------------------------------------------- *)
(* The reply of Cancel (SpecBot)                                           *)
(* ----------------------------------------------------------------------- *)

\* C32: when the initiator's Cancel on a view is answered with "Lootsplit
\* canceled. No balances were changed.", no wallet and no treasury balance has been
\* changed on behalf of that view, in every interleaving of the Confirm and Cancel
\* handlers (a Cancel that arrives while a Confirm handler is suspended after its
\* credits included).
C32_CancelReplyTrue ==
    \A i \in DOMAIN tasks : \A j \in DOMAIN tasks :
        (/\ i < j
         /\ tasks[j].cmd = "cancel"
         /\ tasks[j].outcome = "canceled"
         /\ tasks[i].cmd = "confirm"
         /\ tasks[i].view = tasks[j].view)
        => ~tasks[i].mutated

(* ----------------------------------------------------------------------- *)
(* SpecBoard: the leaderboard command over wallets filled by give_silver   *)
(* ----------------------------------------------------------------------- *)

PageSize == 10
BoardPages == {0 - 1, 1, 2}
BoardAmounts == {1}

Max(a, b) == IF a >= b THEN a ELSE b

\* max(1, page)
clamp_page(pg) == Max(1, pg)

\* /leaderboard [page]: "No balances yet." is tested before "Page out of range."
leaderboard(pg) ==
    /\ CanStart
    /\ BotFrame
    /\ LET p == clamp_page(pg)
           limit == PageSize
           offset == (p - 1) * limit
           rows == get_leaderboard(accounts, BotGuild, limit, offset)
           total_rows == get_leaderboard_count(accounts, BotGuild)
           total_pages == Max(1, (total_rows + limit - 1) \div limit)
       IN  IF rows = <<>>
           THEN RejectedAs("leaderboard", "NoBalances")
           ELSE IF p > total_pages
           THEN RejectedAs("leaderboard", "PageOutOfRange")
           ELSE /\ tasks' = Append(tasks, NewTask("leaderboard", "done", "ok", 0, 0, FALSE))
                /\ UNCHANGED <<tables, views>>

NextBoard ==
    \/ \E member \in BotUsers, amount \in BoardAmounts : give_silver(member, amount)
    \/ \E member \in BotUsers, amount \in BoardAmounts : take_silver(member, amount)
    \/ \E t \in DOMAIN tasks : command_resume(t)
    \/ \E pg \in BoardPages : leaderboard(pg)

SpecBoard == InitBot /\ [][NextBoard]_vars

\* C33: the leaderboard command called with a page beyond the last page, in a
\* guild where some account has a positive wallet, replies "Page out of range.
\* Max page is N." with N = ceil(accounts with wallet > 0 / 10); "No balances yet."
\* is replied only when no account of the guild has a positive wallet.
C33_PageOutOfRange ==
    [][\A pg \in BoardPages :
          leaderboard(pg) =>
              LET positive == Cardinality({u \in BotUsers : wallet_in(accounts, BotGuild, u) > 0})
                  last_page == (positive + PageSize - 1) \div PageSize
                  reply == tasks'[Len(tasks')].outcome
              IN  /\ (positive > 0 /\ clamp_page(pg) > last_page) => reply = "PageOutOfRange"
                  /\ reply = "NoBalances" => positive = 0
    ]_vars

====
